---- MODULE Spec2Model ----
(***************************************************************************)
(* Model of the Kubernetes backend of scylla-cluster-tests                 *)
(* (sdcm/cluster_k8s/__init__.py): the scylla-config ConfigMap edit        *)
(* transaction and the restart-required flag, the bounded waits, and the   *)
(* pod registration of PodCluster.add_nodes.                               *)
(*                                                                         *)
(* The specifications share the module.  Each one drives one part of       *)
(* the program and keeps the variables of the other parts at their         *)
(* initial value:                                                          *)
(*   Spec        config-map transactions, deploy, restart, wait_for_init   *)
(*               on two threads                                            *)
(*   SpecNested  the same operations on one thread, transactions nested    *)
(*   SpecWait    kubectl_wait, wait_for_nodes_readiness,                   *)
(*               wait_for_pod_readiness, wait_till_k8s_pod_get_uid         *)
(*   SpecPods    PodCluster.add_nodes against a changing set of pods       *)
(***************************************************************************)
EXTENDS Integers, Sequences, FiniteSets, Bags, TLC

(***************************************************************************)
(* Bounds of the model.                                                    *)
(***************************************************************************)
\* documents a caller can produce: 0 is the empty mapping {}, 1..MaxDoc others
MaxDoc == 1
\* depth of re-entrant nesting of edit transactions on one thread
MaxNest == 2
\* largest number of 'condition met' lines the platform reports
MaxCount == 3
\* largest num_nodes of a node pool
MaxNodes == 2
\* largest timeout, in minutes, kubectl_wait is called with
MaxTimeout == 4
\* pods the namespace can hold
MaxPods == 3
\* largest count add_nodes is called with
MaxAdd == 2
\* racks of the pod group besides rack 0
MaxRacks == 1
\* add_nodes and decommission calls made on the database pod group
MaxCalls == 3
MaxCpu == 9
MaxTenants == 3
MaxThreads == 3
MaxEarlier == 2
MaxRequests == 3
MaxEventsThreads == 1
MaxStopTimeout == 2
MaxStopWait == 3
MaxMachines == 2
MaxReads == 3
\* start operations called for one handle
MaxStarts == 2
\* threads that call for the default events processes registry
MaxCallers == 3
\* events put on the outbound queue of a pipe, and consumers of the pipe
MaxEvents == 3
MaxConsumers == 2
\* threads that construct a stress exporter
MaxExporters == 3

Threads == {"t1", "t2"}
NoThread == "none"

VARIABLES
    \* ---- config-map part ----
    cm_exists,                \* the platform holds a ConfigMap named scylla-config
    cm_data,                  \* its data map: file name -> stored text
    scylla_restart_required,  \* KubernetesCluster.scylla_restart_required
    scylla_config_lock,       \* KubernetesCluster.scylla_config_lock (an RLock)
    frames,                   \* per thread: the stack of open edit transactions
    pc,                       \* per thread: position in the running operation
    op,                       \* per thread: the operation that is running
    doc_mutated,              \* history: stored document changed since the pods last (re)started
    \* ---- bounded waits ----
    w_op,                     \* the wait operation that was called last
    w_pc,                     \* "idle", "running", "returned" or "raised"
    w_timeout,                \* its overall timeout, in minutes
    w_elapsed,                \* minutes since it was called
    w_attempts,               \* history: attempts made so far
    w_last,                   \* history: what the last attempt reported
    w_prev,                   \* history: what the attempt before it reported
    w_prev_counted,           \* history: the last count reported before the last attempt
    last_resource_count,      \* kubectl_wait's nonlocal last_resource_count
    num_nodes,                \* CloudK8sNodePool.num_nodes
    pod_uid,                  \* the uid the platform reports for the pod ("" for none)
    ignore_uid,               \* wait_till_k8s_pod_get_uid's ignore_uid
    \* ---- pod registration ----
    pods,                     \* per pod of the namespace: "absent", "notready" or "ready"
    nodes,                    \* PodCluster.nodes
    an_pc,                    \* position of the running add_nodes call, or how it ended
    an_count,                 \* its count argument
    an_found,                 \* the nodes it registered
    an_before,                \* history: PodCluster.nodes when it was called
    an_rack,                  \* its rack argument
    \* ---- rack scaling ----
    racks,                    \* declared members of /spec/datacenter/racks, rack 0 first
    dead_nodes_list,          \* ScyllaPodCluster.dead_nodes_list (pod names)
    sc_pc,                    \* position of the running add_nodes / decommission, or how it ended
    sc_op,                    \* "none", "add_nodes" or "decommission"
    sc_rack,                  \* the rack it works on
    sc_node,                  \* decommission's node (its pod name; 0 for none)
    sc_members,               \* its current_members
    sc_effects,               \* history: platform writes and waits it has issued
    sc_calls,                 \* history: calls of the pod group made so far
    \* ---- rolling upgrade ----
    image,                    \* per pod: the version its container runs
    spec_version,             \* /spec/version of the ScyllaCluster resource
    up_pc,                    \* position of the running upgrade_scylla_cluster, or how it ended
    up_new,                   \* its new_version
    up_start,                 \* history: the members when polling started
    up_pending,               \* nodes_with_old_image
    up_seen,                  \* history: members seen running the new image
    up_elapsed,               \* sleeps since the running poll round began
    \* ---- cpu limit ----
    cpu_capacity,             \* the pool's allocatable cpu, in 1/Scale of a cpu
    is_performance_tuning_enabled,
    fp_loss,                  \* per tenants number: the float falls short of a whole number
    tenants_number,           \* of the latest deployment, 0 before any
    calculated_cpu_limit,     \* of the latest deployment, in whole cpus
    cpu_prev,                 \* history: <<tenants_number, limit>> of the deployment before
    \* ---- namespace allocation ----
    platform_namespaces,      \* the namespaces of the cluster
    reuse_cluster,            \* line 2128: params.get('reuse_cluster')
    ns_lock,                  \* NAMESPACE_CREATION_LOCK: the thread that took it last, or 0
    ns_pc,                    \* per thread: position in generate_namespace, or how it ended
    ns_listed,                \* per thread: 'namespaces'
    ns_result,                \* per thread: the name returned
    ns_creations,             \* history: bag of the names the platform created for the calls
    \* ---- rate limiter ----
    api_call_rate_limiter,    \* whether a limiter is configured (None otherwise)
    rl_paused,                \* inside the limiter's pause scope
    rl_pc,                    \* position of the caller
    rl_op,                    \* the operation the caller runs, if it is more than one call
    rl_path,                  \* the method entered
    rl_held,                  \* the limiter was waited for in this call
    rl_requests,              \* history: requests issued so far
    rl_last,                  \* history: the latest request issued
    \* ---- teardown of the background tasks ----
    st_started,               \* the tasks that were started (their attribute is not None)
    st_alive,                 \* the tasks still running
    st_pc,                    \* 0: not called; i: at the i-th task of StopOrder; past it: returned
    st_timeout,               \* the timeout the teardown was called with
    st_asked,                 \* history, per task: how its stop was called
    st_elapsed,               \* history: seconds spent in stop(timeout) calls
    st_untimed,               \* history: seconds spent in stop() calls
    \* ---- pool capacity ----
    cap_machines,             \* the machines the platform lists, in list order
    cap_cache,                \* the cached (cpu, memory) pair, <<0, 0>> when there is none
    cap_queries,              \* history: list_node calls made
    cap_reads,                \* history: reads of the property
    cap_result,               \* history: what the latest read gave
    \* ---- handles of the background tasks ----
    th_handle,                \* per attribute: the task object it holds, 0 for None
    th_started,               \* history: per attribute, the task objects started for it
    th_asked,                 \* history: the task objects whose stop was called
    th_alive,                 \* the token update threads that have not ended
    th_stops,                 \* history: the stop operations run since the latest start
    \* ---- default events processes registry ----
    EVENTS_PROCESSES,         \* the module's _EVENTS_PROCESSES
    EVENTS_PROCESSES_LOCK,    \* the thread that holds _EVENTS_PROCESSES_LOCK, or NoCaller
    reg_pc,                   \* per thread: position in its call
    reg_op,                   \* per thread: the function called and its _registry argument
    reg_result,               \* per thread: what its call gave
    reg_outcomes,             \* history: registries constructed, creates returned and refused
    \* ---- events process pipe ----
    outbound_queue,           \* the events put and not yet taken, oldest first
    q_put,                    \* history: events put so far; they are numbered in this order
    stop_event,               \* per consumer: its stop_event is set
    events_counter,           \* per consumer: its _events_counter
    q_pc,                     \* per consumer: position of its outbound_events generator
    q_yielded,                \* history: per consumer, the events yielded to it
    q_after,                  \* history: per consumer, queue waits ended since the flag was set
    \* ---- stress exporters ----
    METRICS_GAUGES,           \* StressExporter.METRICS_GAUGES: per gauge name, a gauge or NoGauge
    gg_pc,                    \* per thread: position in the constructor
    gauge_name,               \* per thread: the gauge name of its exporter
    gg_new,                   \* per thread: what its create_gauge call returned
    stress_metric,            \* per thread: its exporter's stress_metric
    gg_calls                  \* history: per gauge name, the create_gauge calls made

cfgVars == <<cm_exists, cm_data, scylla_restart_required, scylla_config_lock,
             frames, pc, op, doc_mutated>>

waitVars == <<w_op, w_pc, w_timeout, w_elapsed, w_attempts, w_last, w_prev, w_prev_counted,
              last_resource_count, num_nodes, pod_uid, ignore_uid>>

podVars == <<pods, nodes, an_pc, an_count, an_found, an_before, an_rack>>

rackVars == <<racks, dead_nodes_list, sc_pc, sc_op, sc_rack, sc_node, sc_members,
              sc_effects, sc_calls>>

upVars == <<image, spec_version, up_pc, up_new, up_start, up_pending, up_seen, up_elapsed>>

cpuVars == <<cpu_capacity, is_performance_tuning_enabled, fp_loss, tenants_number,
             calculated_cpu_limit, cpu_prev>>

nsVars == <<platform_namespaces, reuse_cluster, ns_lock, ns_pc, ns_listed, ns_result,
            ns_creations>>

rlVars == <<api_call_rate_limiter, rl_paused, rl_pc, rl_op, rl_path, rl_held, rl_requests,
            rl_last>>

stVars == <<st_started, st_alive, st_pc, st_timeout, st_asked, st_elapsed, st_untimed>>

capVars == <<cap_machines, cap_cache, cap_queries, cap_reads, cap_result>>

thVars == <<th_handle, th_started, th_asked, th_alive, th_stops>>

regVars == <<EVENTS_PROCESSES, EVENTS_PROCESSES_LOCK, reg_pc, reg_op, reg_result, reg_outcomes>>

pipeVars == <<outbound_queue, q_put, stop_event, events_counter, q_pc, q_yielded, q_after>>

ggVars == <<METRICS_GAUGES, gg_pc, gauge_name, gg_new, stress_metric, gg_calls>>

lastVars == <<thVars, regVars, pipeVars, ggVars>>

newerVars == <<stVars, capVars, lastVars>>

vars == <<cfgVars, waitVars, podVars, rackVars, upVars, cpuVars, nsVars, rlVars, newerVars>>

laterVars == <<upVars, cpuVars, nsVars, rlVars, newerVars>>

otherThanCfg == <<waitVars, podVars, rackVars, laterVars>>
otherThanWait == <<cfgVars, podVars, rackVars, laterVars>>
otherThanPods == <<cfgVars, waitVars, rackVars, laterVars>>
otherThanRacks == <<cfgVars, w_op, w_pc, w_timeout, w_elapsed, w_attempts, w_last, w_prev,
                    w_prev_counted, last_resource_count, pod_uid, ignore_uid, laterVars>>
otherThanUp == <<cfgVars, waitVars, podVars, rackVars, cpuVars, nsVars, rlVars, newerVars>>
otherThanCpu == <<cfgVars, waitVars, podVars, rackVars, upVars, nsVars, rlVars, newerVars>>
otherThanNs == <<cfgVars, waitVars, podVars, rackVars, upVars, cpuVars, rlVars, newerVars>>
otherThanRl == <<cfgVars, waitVars, podVars, rackVars, upVars, cpuVars, nsVars, newerVars>>
earlierVars == <<cfgVars, waitVars, podVars, rackVars, upVars, cpuVars, nsVars, rlVars>>
otherThanSt == <<earlierVars, capVars, lastVars>>
otherThanCap == <<earlierVars, stVars, lastVars>>
settledVars == <<earlierVars, stVars, capVars>>
otherThanTh == <<settledVars, regVars, pipeVars, ggVars>>
otherThanReg == <<settledVars, thVars, pipeVars, ggVars>>
otherThanPipe == <<settledVars, thVars, regVars, ggVars>>
otherThanGg == <<settledVars, thVars, regVars, pipeVars>>

(***************************************************************************)
(* YAML texts and documents.                                               *)
(* A stored text is <<style, d>>: the document d it denotes and how it is  *)
(* written.  yaml.safe_dump always produces the "block" style; a text put  *)
(* on the platform by somebody else may be in "flow" style, or empty.      *)
(***************************************************************************)
Files == {"scylla.yaml", "cassandra-rackdc.properties"}
Docs == 0..MaxDoc
EmptyDoc == 0
NoEntry == <<"absent", 0>>
EmptyText == <<"empty", 0>>
YamlNone == <<"none", 0>>
Texts == {EmptyText} \cup ({"block", "flow"} \X Docs)
EmptyMap == [f \in Files |-> NoEntry]

\* yaml.safe_load(text): the empty text loads as None
safe_load(text) == IF text = EmptyText THEN YamlNone ELSE <<"doc", text[2]>>
\* "<loaded> or {}": None and the empty mapping both give {}
OrEmptyDoc(loaded) == IF loaded = YamlNone THEN EmptyDoc ELSE loaded[2]
\* yaml.safe_dump(data)
safe_dump(d) == <<"block", d>>
\* scylla_config_map.get(filename, "")
DictGet(m, f) == IF m[f] = NoEntry THEN EmptyText ELSE m[f]

\* read_namespaced_config_map(...).data or {}: raises when the resource is absent
ReadConfigMap == IF cm_exists THEN cm_data ELSE EmptyMap

(***************************************************************************)
(* The re-entrant lock.                                                    *)
(***************************************************************************)
\* mutant: the lock lets every thread in
LockNeverBlocks(t) == TRUE

LockAvailable(t) ==
    scylla_config_lock.owner = NoThread \/ scylla_config_lock.owner = t

Acquire(t) == [owner |-> t, count |-> scylla_config_lock.count + 1]

ReleaseOnce ==
    IF scylla_config_lock.count = 1
    THEN [owner |-> NoThread, count |-> 0]
    ELSE [scylla_config_lock EXCEPT !.count = @ - 1]

(***************************************************************************)
(* Edit transactions.  A frame is one running                              *)
(* manage_file_in_scylla_config_map(filename) with the scylla_config_map   *)
(* context it is nested in.                                                *)
(***************************************************************************)
Top(t) == frames[t][Len(frames[t])]
SetTop(t, fr) == [frames EXCEPT ![t] = [@ EXCEPT ![Len(@)] = fr]]
InTxn(t) == frames[t] # <<>>
InBody(t) == InTxn(t) /\ Top(t).st = "body"

\* mutant: the entry is written again whether or not the document changed
FileAlwaysChanged(fr) == TRUE
\* line 1508: the caller changed the yielded document
FileChanged(fr) == fr.old_data # fr.new_data
\* mutant: the write is issued without comparing the maps
ConfigMapAlwaysWritten(fr) == TRUE
\* line 1476: original_config_map == config_map
ConfigMapChanged(fr) == fr.original_config_map # fr.config_map

\* lines 1466-1475 and 1504-1507: acquire, read, copy, load, yield
NewFrame(f) ==
    LET config_map == ReadConfigMap
        old_data == OrEmptyDoc(safe_load(DictGet(config_map, f)))
    IN  [filename |-> f,
         exists |-> cm_exists,
         config_map |-> config_map,
         original_config_map |-> config_map,
         old_data |-> old_data,
         new_data |-> old_data,
         st |-> "body",
         writes |-> 0,
         stale |-> FALSE]

BeginTxn(t, f) ==
    /\ LockAvailable(t)
    /\ scylla_config_lock' = Acquire(t)
    /\ frames' = [frames EXCEPT ![t] = Append(@, NewFrame(f))]

\* a caller opens manage_file_in_scylla_config_map(f), at top level or inside
\* the body of a transaction it already has open (at most limit deep)
EnterTxn(t, f, limit) ==
    /\ \/ pc[t] = "idle" /\ ~InTxn(t)
       \/ pc[t] = "txn" /\ InBody(t) /\ Len(frames[t]) < limit
    /\ BeginTxn(t, f)
    /\ pc' = [pc EXCEPT ![t] = "txn"]
    /\ op' = [op EXCEPT ![t] = IF pc[t] = "idle" THEN "edit" ELSE @]
    /\ UNCHANGED <<cm_exists, cm_data, scylla_restart_required, doc_mutated,
                   otherThanCfg>>

\* the caller's body changes the yielded document
Modify(t, d) ==
    /\ pc[t] = "txn" /\ InBody(t)
    /\ d # Top(t).new_data
    /\ frames' = SetTop(t, [Top(t) EXCEPT !.new_data = d])
    /\ UNCHANGED <<cm_exists, cm_data, scylla_restart_required, scylla_config_lock,
                   pc, op, doc_mutated,
                   otherThanCfg>>

\* lines 1508-1520: the code of manage_file_in_scylla_config_map after its yield
ExitFile(t) ==
    /\ pc[t] = "txn" /\ InBody(t)
    /\ LET fr == Top(t) IN
       IF ~FileChanged(fr)
       THEN /\ frames' = SetTop(t, [fr EXCEPT !.st = "file_done"])
            /\ UNCHANGED scylla_restart_required
       ELSE /\ frames' = SetTop(t, [fr EXCEPT
                   !.st = "file_done",
                   !.config_map = [@ EXCEPT ![fr.filename] =
                        IF fr.new_data = EmptyDoc THEN NoEntry
                        ELSE safe_dump(fr.new_data)]])
            /\ scylla_restart_required' = TRUE
    /\ UNCHANGED <<cm_exists, cm_data, scylla_config_lock, pc, op, doc_mutated,
                   otherThanCfg>>

\* the frames below the top one of thread t, marked as read before a write of t
MarkStale(t, fr) ==
    [frames EXCEPT ![t] = [i \in 1..Len(@) |->
        IF i = Len(@) THEN fr ELSE [@[i] EXCEPT !.stale = TRUE]]]

\* lines 1476-1492: the code of scylla_config_map after its yield
ExitMap(t) ==
    /\ pc[t] = "txn" /\ InTxn(t) /\ Top(t).st = "file_done"
    /\ LET fr == Top(t) IN
       IF ~ConfigMapChanged(fr)
       THEN /\ frames' = SetTop(t, [fr EXCEPT !.st = "done"])
            /\ UNCHANGED <<cm_exists, cm_data, doc_mutated>>
       ELSE \E ok \in BOOLEAN :
            \* patch needs the resource to exist, create needs it not to
            IF ok /\ (fr.exists <=> cm_exists)
            THEN /\ cm_exists' = TRUE
                 /\ cm_data' = fr.config_map
                 /\ doc_mutated' = (doc_mutated \/ fr.config_map # ReadConfigMap)
                 /\ frames' = MarkStale(t, [fr EXCEPT !.st = "done", !.writes = @ + 1])
            ELSE /\ frames' = SetTop(t, [fr EXCEPT !.st = "raised", !.writes = @ + 1])
                 /\ UNCHANGED <<cm_exists, cm_data, doc_mutated>>
    /\ UNCHANGED <<scylla_restart_required, scylla_config_lock, pc, op,
                   otherThanCfg>>

\* the with-blocks are left: the lock is released once, the caller goes on
Release(t) ==
    /\ pc[t] = "txn" /\ InTxn(t) /\ Top(t).st = "done"
    /\ frames' = [frames EXCEPT ![t] = SubSeq(@, 1, Len(@) - 1)]
    /\ scylla_config_lock' = ReleaseOnce
    /\ pc' = [pc EXCEPT ![t] =
            IF Len(frames[t]) > 1 THEN "txn"
            ELSE IF op[t] = "deploy" THEN "deploy_clear" ELSE "idle"]
    /\ op' = [op EXCEPT ![t] =
            IF Len(frames[t]) = 1 /\ @ = "edit" THEN "none" ELSE @]
    /\ UNCHANGED <<cm_exists, cm_data, scylla_restart_required, doc_mutated,
                   otherThanCfg>>

\* the write raised: the exception leaves every enclosing with-block of the thread
Unwind(t) ==
    /\ pc[t] = "txn" /\ InTxn(t) /\ Top(t).st = "raised"
    /\ frames' = [frames EXCEPT ![t] = <<>>]
    /\ scylla_config_lock' = [owner |-> NoThread, count |-> 0]
    /\ pc' = [pc EXCEPT ![t] = "idle"]
    /\ op' = [op EXCEPT ![t] = "none"]
    /\ UNCHANGED <<cm_exists, cm_data, scylla_restart_required, doc_mutated,
                   otherThanCfg>>

\* mutant: the lock stays as it is when a with-block is left
LockKept == scylla_config_lock

\* line 1466: leaving 'with self.scylla_config_lock', by return or exception
LockLeft == ReleaseOnce

\* lines 1475 and 1507: the caller's body raises; the exception is raised at
\* the two yields, none of the code after them runs, and the with-block of
\* line 1466 is left.  The exception reaches the caller of the transaction:
\* the body of the enclosing transaction, or the code that opened this one.
BodyRaises(t) ==
    /\ pc[t] = "txn" /\ InBody(t)
    /\ frames' = [frames EXCEPT ![t] = SubSeq(@, 1, Len(@) - 1)]
    /\ scylla_config_lock' = LockLeft
    /\ pc' = [pc EXCEPT ![t] = IF Len(frames[t]) > 1 THEN "txn" ELSE "body_raised"]
    /\ UNCHANGED <<cm_exists, cm_data, scylla_restart_required, op, doc_mutated,
                   otherThanCfg>>

\* the code that opened the transaction has the exception, and goes on
BodyRaiseSeen(t) ==
    /\ pc[t] = "body_raised"
    /\ pc' = [pc EXCEPT ![t] = "idle"]
    /\ op' = [op EXCEPT ![t] = "none"]
    /\ UNCHANGED <<cm_exists, cm_data, scylla_restart_required, scylla_config_lock, frames,
                   doc_mutated, otherThanCfg>>

(***************************************************************************)
(* deploy_scylla_cluster: init_scylla_config_map is an edit transaction    *)
(* of scylla.yaml; then the flag is cleared and the cluster is installed.  *)
(***************************************************************************)
\* lines 961-990: up to the yield inside init_scylla_config_map
DeployBegin(t) ==
    /\ pc[t] = "idle" /\ ~InTxn(t)
    /\ BeginTxn(t, "scylla.yaml")
    /\ pc' = [pc EXCEPT ![t] = "txn"]
    /\ op' = [op EXCEPT ![t] = "deploy"]
    /\ UNCHANGED <<cm_exists, cm_data, scylla_restart_required, doc_mutated,
                   otherThanCfg>>

\* line 991 and the helm install after it: the pods start with the stored document
DeployClear(t) ==
    /\ pc[t] = "deploy_clear"
    /\ scylla_restart_required' = FALSE
    /\ doc_mutated' = FALSE
    /\ pc' = [pc EXCEPT ![t] = "idle"]
    /\ op' = [op EXCEPT ![t] = "none"]
    /\ UNCHANGED <<cm_exists, cm_data, scylla_config_lock, frames,
                   otherThanCfg>>

(***************************************************************************)
(* ScyllaPodCluster.restart_scylla and wait_for_init.                      *)
(***************************************************************************)
\* mutant: wait_for_init clears the flag without restarting
WaitForInitSkipsRestart(t) ==
    /\ pc[t] = "idle" /\ ~InTxn(t)
    /\ scylla_restart_required
    /\ scylla_restart_required' = FALSE
    /\ UNCHANGED <<cm_exists, cm_data, scylla_config_lock, frames, pc, op, doc_mutated,
                   otherThanCfg>>

\* lines 2179-2181: the first wait_for_nodes_up_and_normal, then the flag is read
WaitForInitCheck(t) ==
    /\ pc[t] = "idle" /\ ~InTxn(t)
    /\ scylla_restart_required
    /\ pc' = [pc EXCEPT ![t] = "wfi_restart"]
    /\ op' = [op EXCEPT ![t] = "wfi"]
    /\ UNCHANGED <<cm_exists, cm_data, scylla_restart_required, scylla_config_lock,
                   frames, doc_mutated,
                   otherThanCfg>>

\* lines 2460-2467: the forceRedeploymentReason patch and the sleep
RestartPatch(t) ==
    /\ ~InTxn(t)
    /\ \/ pc[t] = "idle" /\ op' = [op EXCEPT ![t] = "restart"]
       \/ pc[t] = "wfi_restart" /\ UNCHANGED op
    /\ pc' = [pc EXCEPT ![t] = "rs_rollout"]
    /\ UNCHANGED <<cm_exists, cm_data, scylla_restart_required, scylla_config_lock,
                   frames, doc_mutated,
                   otherThanCfg>>

\* lines 2469-2478: rollout status of every statefulset; a timeout raises
RestartRollout(t) ==
    /\ pc[t] = "rs_rollout"
    /\ \E ok \in BOOLEAN :
        IF ok
        THEN /\ pc' = [pc EXCEPT ![t] = "rs_clear"]
             /\ doc_mutated' = FALSE
             /\ UNCHANGED op
        ELSE /\ pc' = [pc EXCEPT ![t] = "idle"]
             /\ op' = [op EXCEPT ![t] = "none"]
             /\ UNCHANGED doc_mutated
    /\ UNCHANGED <<cm_exists, cm_data, scylla_restart_required, scylla_config_lock, frames,
                   otherThanCfg>>

\* line 2479
RestartClear(t) ==
    /\ pc[t] = "rs_clear"
    /\ scylla_restart_required' = FALSE
    /\ pc' = [pc EXCEPT ![t] = IF op[t] = "wfi" THEN "wfi_clear" ELSE "idle"]
    /\ op' = [op EXCEPT ![t] = IF @ = "wfi" THEN @ ELSE "none"]
    /\ UNCHANGED <<cm_exists, cm_data, scylla_config_lock, frames, doc_mutated,
                   otherThanCfg>>

\* lines 2183-2184: the flag is cleared again, then the second wait
WaitForInitClear(t) ==
    /\ pc[t] = "wfi_clear"
    /\ scylla_restart_required' = FALSE
    /\ pc' = [pc EXCEPT ![t] = "idle"]
    /\ op' = [op EXCEPT ![t] = "none"]
    /\ UNCHANGED <<cm_exists, cm_data, scylla_config_lock, frames, doc_mutated,
                   otherThanCfg>>

(***************************************************************************)
(* Bounded waits.  Time is counted in minutes.  One wait operation runs    *)
(* at a time; every attempt asks the platform, which answers with a        *)
(* number of 'condition met' lines or fails (nothing matched, or the       *)
(* command's own timeout passed).                                          *)
(***************************************************************************)
NoReport == <<"none", 0>>
FailedAttempt == <<"failed", 0>>
Counted(c) == <<"count", c>>
Outcomes == {FailedAttempt} \cup {Counted(c) : c \in 0..MaxCount}
IsCount(o) == o[1] = "count"
Uids == {"", "uid1", "uid2"}
NoUid == "None"

\* sdcm.utils.decorators.timeout: after a failed attempt that ends at minute e,
\* raise when the overall timeout has passed, else sleep and call again
AfterException(e) == IF e >= w_timeout THEN "raised" ELSE "running"

\* sdcm.wait.wait_for: after an attempt that gave nothing, at minute e
AfterFalsy(e, throw_exc) ==
    IF e >= w_timeout
    THEN IF throw_exc THEN "raised" ELSE "returned"
    ELSE "running"

\* the history kept of the attempts
Attempted(out) ==
    /\ w_attempts' = w_attempts + 1
    /\ w_last' = out
    /\ w_prev' = w_last
    /\ w_prev_counted' = IF IsCount(w_last) THEN w_last ELSE w_prev_counted

StartWait(o, timeout) ==
    /\ w_pc # "running"
    /\ w_op' = o
    /\ w_pc' = "running"
    /\ w_timeout' = timeout
    /\ w_elapsed' = 0
    /\ w_attempts' = 0
    /\ w_last' = NoReport
    /\ w_prev' = NoReport
    /\ w_prev_counted' = NoReport

\* ---- KubernetesCluster.kubectl_wait ----
\* line 365
InitialResourceCount == -1

\* mutant: every count is taken as a changed one
CountAlwaysChanged(current_resource_count, last) == TRUE

\* mutant: only a growing count makes the wait run again
CountIncreased(current_resource_count, last) == current_resource_count > last

\* line 372
CountChanged(current_resource_count, last) == current_resource_count # last

\* lines 365-378, up to the first call of wait_body
KubectlWaitCall(timeout) ==
    /\ StartWait("kubectl_wait", timeout)
    /\ last_resource_count' = InitialResourceCount
    /\ UNCHANGED <<num_nodes, pod_uid, ignore_uid, otherThanWait>>

\* lines 368-377: one call of wait_body; 'kubectl wait --timeout=1m' takes a minute
KubectlWaitAttempt ==
    /\ w_op = "kubectl_wait" /\ w_pc = "running"
    /\ \E out \in Outcomes :
        LET e == w_elapsed + 1 IN
        /\ w_elapsed' = e
        /\ Attempted(out)
        /\ IF ~IsCount(out)
           THEN /\ w_pc' = AfterException(e)
                /\ UNCHANGED last_resource_count
           ELSE IF CountChanged(out[2], last_resource_count)
           THEN /\ last_resource_count' = out[2]
                /\ w_pc' = AfterException(e)
           ELSE /\ w_pc' = "returned"
                /\ UNCHANGED last_resource_count
    /\ UNCHANGED <<w_op, w_timeout, num_nodes, pod_uid, ignore_uid, otherThanWait>>

\* ---- CloudK8sNodePool.wait_for_nodes_readiness ----
\* lines 227-229, in minutes
readiness_timeout(n) == 10 + (10 * n)

\* mutant: more reports than nodes are taken as ready
NodesReportedAtLeast(count, n) == count >= n

\* line 252
NodesReported(count, n) == count = n

\* lines 239-246: timeout=readiness_timeout * 60 seconds
WaitForNodesReadinessCall ==
    /\ StartWait("nodes_readiness", readiness_timeout(num_nodes))
    /\ UNCHANGED <<last_resource_count, num_nodes, pod_uid, ignore_uid, otherThanWait>>

\* lines 247-253: one call of wait_nodes_are_ready; the command answers at once
\* or after its own timeout of readiness_timeout // 5 minutes
WaitForNodesReadinessAttempt ==
    /\ w_op = "nodes_readiness" /\ w_pc = "running"
    /\ \E out \in Outcomes, d \in {1, readiness_timeout(num_nodes) \div 5} :
        LET e == w_elapsed + d IN
        /\ w_elapsed' = e
        /\ Attempted(out)
        /\ w_pc' = IF IsCount(out) /\ NodesReported(out[2], num_nodes)
                   THEN "returned" ELSE AfterException(e)
    /\ UNCHANGED <<w_op, w_timeout, last_resource_count, num_nodes, pod_uid, ignore_uid,
                   otherThanWait>>

\* ---- BasePodContainer.wait_for_pod_readiness ----
\* line 1558, minutes
pod_readiness_timeout == 5
\* line 1559, minutes
pod_terminate_timeout == 5
\* lines 1572-1574
pod_replace_timeout == pod_terminate_timeout + pod_readiness_timeout

\* lines 1718-1723
WaitForPodReadinessCall ==
    /\ StartWait("pod_readiness", pod_readiness_timeout)
    /\ UNCHANGED <<last_resource_count, num_nodes, pod_uid, ignore_uid, otherThanWait>>

\* lines 1725-1732: one call of _wait_for_pod_readiness
WaitForPodReadinessAttempt ==
    /\ w_op = "pod_readiness" /\ w_pc = "running"
    /\ \E out \in Outcomes :
        LET e == w_elapsed + (pod_readiness_timeout \div 3) IN
        /\ w_elapsed' = e
        /\ Attempted(out)
        /\ w_pc' = IF IsCount(out) /\ out[2] = 1
                   THEN "returned" ELSE AfterFalsy(e, TRUE)
    /\ UNCHANGED <<w_op, w_timeout, last_resource_count, num_nodes, pod_uid, ignore_uid,
                   otherThanWait>>

\* ---- BasePodContainer.wait_till_k8s_pod_get_uid ----
\* line 1684: self.k8s_pod_uid and self.k8s_pod_uid != ignore_uid
UidIsValid(uid, ignore) == uid # "" /\ uid # ignore

\* lines 1677-1685
WaitTillPodGetUidCall(ignore) ==
    /\ StartWait("pod_uid", pod_replace_timeout)
    /\ ignore_uid' = ignore
    /\ UNCHANGED <<last_resource_count, num_nodes, pod_uid, otherThanWait>>

\* lines 1684-1686: one poll of the pod's uid; throw_exc=False
WaitTillPodGetUidAttempt ==
    /\ w_op = "pod_uid" /\ w_pc = "running"
    /\ \E uid \in Uids :
        LET e == w_elapsed + 1 IN
        /\ pod_uid' = uid
        /\ w_elapsed' = e
        /\ Attempted(NoReport)
        /\ w_pc' = IF UidIsValid(uid, ignore_uid)
                   THEN "returned" ELSE AfterFalsy(e, FALSE)
    /\ UNCHANGED <<w_op, w_timeout, last_resource_count, num_nodes, ignore_uid,
                   otherThanWait>>

WaitIdle ==
    /\ w_op = "none"
    /\ w_pc = "idle"
    /\ w_timeout = 0
    /\ w_elapsed = 0
    /\ w_attempts = 0
    /\ w_last = NoReport
    /\ w_prev = NoReport
    /\ w_prev_counted = NoReport
    /\ last_resource_count = InitialResourceCount
    /\ pod_uid = ""
    /\ ignore_uid = NoUid

InitWait ==
    /\ WaitIdle
    /\ num_nodes \in 1..MaxNodes

NextWait ==
    \/ \E timeout \in 1..MaxTimeout : KubectlWaitCall(timeout)
    \/ KubectlWaitAttempt
    \/ WaitForNodesReadinessCall
    \/ WaitForNodesReadinessAttempt
    \/ WaitForPodReadinessCall
    \/ WaitForPodReadinessAttempt
    \/ \E ignore \in {NoUid, "uid1"} : WaitTillPodGetUidCall(ignore)
    \/ WaitTillPodGetUidAttempt

(***************************************************************************)
(* Pod registration: PodCluster.add_nodes against the pods of the          *)
(* namespace, which the platform creates, makes Ready and deletes on its   *)
(* own.                                                                    *)
(***************************************************************************)
PodIds == 1..MaxPods
\* the pods of the namespace that belong to something else (no container of
\* this pod group in them); which pods these are never changes
ForeignPods == {1}
Present(p) == pods[p] # "absent"
IsReady(p) == pods[p] = "ready"
\* line 2061: the pod runs the container of this pod group
RunsContainer(p) == p \notin ForeignPods
\* mutant: no pod is taken for a registered one
NeverRegistered(ns, p) == FALSE

\* lines 2064-2067: a node of that name is in self.nodes
IsRegistered(ns, p) == \E i \in 1..Len(ns) : ns[i].name = p

\* how an add_nodes call can have ended; the caller sees the outcome before
\* anything else is looked at
AddNodesEnded == an_pc \in {"returned", "raised", "wait_raised"}

PodCreate(p) ==
    /\ ~AddNodesEnded
    /\ ~Present(p)
    /\ pods' = [pods EXCEPT ![p] = "notready"]
    /\ UNCHANGED <<nodes, an_pc, an_count, an_found, an_before, an_rack, otherThanPods>>

PodBecomesReady(p) ==
    /\ ~AddNodesEnded
    /\ pods[p] = "notready"
    /\ pods' = [pods EXCEPT ![p] = "ready"]
    /\ UNCHANGED <<nodes, an_pc, an_count, an_found, an_before, an_rack, otherThanPods>>

PodBecomesNotReady(p) ==
    /\ ~AddNodesEnded
    /\ pods[p] = "ready"
    /\ pods' = [pods EXCEPT ![p] = "notready"]
    /\ UNCHANGED <<nodes, an_pc, an_count, an_found, an_before, an_rack, otherThanPods>>

PodDelete(p) ==
    /\ ~AddNodesEnded
    /\ Present(p)
    /\ pods' = [pods EXCEPT ![p] = "absent"]
    /\ UNCHANGED <<nodes, an_pc, an_count, an_found, an_before, an_rack, otherThanPods>>

\* KubernetesOps.wait_for_pods_readiness: 'kubectl wait --all --for=condition=Ready pod'
\* answers for every pod of the namespace, and total_pods answers are wanted
PodsAreReady(total_pods) ==
    /\ \A p \in PodIds : Present(p) => IsReady(p)
    /\ Cardinality({p \in PodIds : IsReady(p)}) = total_pods

\* mutant: only a short registration raises
FewerRegistered(found, count) == Len(found) < count

\* line 2075
RegistrationMismatch(found, count) == Len(found) # count

\* lines 2060-2074: the loop over the listed pods, in the order of the list
RECURSIVE RegisterPods(_, _, _)
RegisterPods(todo, ns, found) ==
    IF todo = {} THEN <<ns, found>>
    ELSE LET p == CHOOSE x \in todo : \A y \in todo : x <= y
             rest == todo \ {p}
         IN  IF ~RunsContainer(p) \/ IsRegistered(ns, p)
             THEN RegisterPods(rest, ns, found)
             ELSE LET node == [name |-> p,
                               node_index |-> Len(ns),
                               rack |-> an_rack,
                               ready_when_added |-> IsReady(p)]
                  IN  RegisterPods(rest, Append(ns, node), Append(found, node))

\* line 2047: rack: int = 0
DefaultRack == 0

\* lines 2043-2055: the call, up to the readiness wait
AddNodesCall(count) ==
    /\ an_pc = "idle"
    /\ an_pc' = "waiting"
    /\ an_count' = count
    /\ an_found' = <<>>
    /\ an_before' = nodes
    /\ an_rack' = DefaultRack
    /\ UNCHANGED <<pods, nodes, otherThanPods>>

\* line 2055: the wait for len(self.nodes) + count pods returns
AddNodesWaitDone ==
    /\ an_pc = "waiting"
    /\ PodsAreReady(Len(nodes) + an_count)
    /\ an_pc' = "listing"
    /\ UNCHANGED <<pods, nodes, an_count, an_found, an_before, an_rack, otherThanPods>>

\* line 2055: the wait times out and raises
AddNodesWaitTimeout ==
    /\ an_pc = "waiting"
    /\ ~PodsAreReady(Len(nodes) + an_count)
    /\ an_pc' = "wait_raised"
    /\ UNCHANGED <<pods, nodes, an_count, an_found, an_before, an_rack, otherThanPods>>

\* lines 2057-2078: list the pods, register the new ones, compare with count
AddNodesRegister ==
    /\ an_pc = "listing"
    /\ LET r == RegisterPods({p \in PodIds : Present(p)}, nodes, <<>>) IN
        /\ nodes' = r[1]
        /\ an_found' = r[2]
        /\ an_pc' = IF RegistrationMismatch(r[2], an_count) THEN "raised" ELSE "returned"
    /\ UNCHANGED <<pods, an_count, an_before, an_rack, otherThanPods>>

\* the caller has the list, or the exception, and goes on
AddNodesEnd ==
    /\ AddNodesEnded
    /\ an_pc' = "idle"
    /\ an_count' = 0
    /\ an_found' = <<>>
    /\ an_before' = <<>>
    /\ an_rack' = DefaultRack
    /\ UNCHANGED <<pods, nodes, otherThanPods>>

PodsIdle ==
    /\ pods = [p \in PodIds |-> "absent"]
    /\ nodes = <<>>
    /\ an_pc = "idle"
    /\ an_count = 0
    /\ an_found = <<>>
    /\ an_before = <<>>
    /\ an_rack = DefaultRack

NextPods ==
    \/ \E p \in PodIds : PodCreate(p)
    \/ \E p \in PodIds : PodBecomesReady(p)
    \/ \E p \in PodIds : PodBecomesNotReady(p)
    \/ \E p \in PodIds : PodDelete(p)
    \/ \E count \in 1..MaxAdd : AddNodesCall(count)
    \/ AddNodesWaitDone
    \/ AddNodesWaitTimeout
    \/ AddNodesRegister
    \/ AddNodesEnd

(***************************************************************************)
(* Rack scaling: ScyllaPodCluster.add_nodes and decommission against the   *)
(* declared racks of the ScyllaCluster resource.  Rack r is element r + 1  *)
(* of racks; an element is the rack's declared number of members.          *)
(***************************************************************************)
RackIds == 0..MaxRacks
NoNode == 0

\* cluster.BaseCluster.get_rack_nodes(rack): the members of that rack, by name
RECURSIVE SortedByName(_)
SortedByName(members) ==
    IF members = {} THEN <<>>
    ELSE LET m == CHOOSE x \in members : \A y \in members : x.name <= y.name
         IN  <<m>> \o SortedByName(members \ {m})
get_rack_nodes(ns, rack) ==
    SortedByName({ns[i] : i \in {j \in 1..Len(ns) : ns[j].rack = rack}})

\* get_scylla_cluster_value('/spec/datacenter/racks/<rack>') is not None
RackDeclared(rs, rack) == rack + 1 <= Len(rs)

\* lines 2348-2355: the new rack is added at the end of the declared list
CreateRackIfNotExists(rs, rack) ==
    IF RackDeclared(rs, rack) THEN rs ELSE Append(rs, 0)

\* mutant: the declared count is the count asked for
DeclaredIsCount(current_members, count) == count

\* line 2340: current_members + count
DeclaredAfterAdd(current_members, count) == current_members + count

\* lines 2334-2346, up to the readiness wait of PodCluster.add_nodes; the patch
\* of a rack that is not declared is refused and replace_scylla_cluster_value raises
ScyllaAddNodesCall(count, rack) ==
    /\ sc_pc = "idle" /\ an_pc = "idle"
    /\ sc_calls < MaxCalls
    /\ sc_calls' = sc_calls + 1
    /\ sc_op' = "add_nodes"
    /\ sc_rack' = rack
    /\ sc_node' = NoNode
    /\ LET created == CreateRackIfNotExists(racks, rack)
           current_members == Len(get_rack_nodes(nodes, rack))
       IN  /\ sc_members' = current_members
           /\ IF RackDeclared(created, rack)
              THEN /\ racks' = [created EXCEPT
                                  ![rack + 1] = DeclaredAfterAdd(current_members, count)]
                   /\ sc_pc' = "adding"
                   /\ an_pc' = "waiting"
                   /\ an_count' = count
                   /\ an_rack' = rack
                   /\ an_before' = nodes
                   /\ sc_effects' = IF created = racks THEN 1 ELSE 2
              ELSE /\ racks' = created
                   /\ sc_pc' = "raised"
                   /\ sc_effects' = 2
                   /\ UNCHANGED <<an_pc, an_count, an_rack, an_before>>
    /\ UNCHANGED <<pods, nodes, an_found, dead_nodes_list, num_nodes, otherThanRacks>>

\* mutant: any member of the rack may be withdrawn
AnyOfRack(rack_nodes, name) == TRUE

\* line 2390: rack_nodes[-1] == node
IsLastOfRack(rack_nodes, name) == rack_nodes[Len(rack_nodes)].name = name

\* lines 2387-2401, up to the wait for the pod's deletion
DecommissionCall(i) ==
    /\ sc_pc = "idle" /\ an_pc = "idle"
    /\ sc_calls < MaxCalls
    /\ sc_calls' = sc_calls + 1
    /\ i \in 1..Len(nodes)
    /\ LET node == nodes[i]
           rack_nodes == get_rack_nodes(nodes, node.rack)
           current_members == Len(rack_nodes)
       IN  /\ sc_op' = "decommission"
           /\ sc_rack' = node.rack
           /\ sc_node' = node.name
           /\ sc_members' = current_members
           /\ IF ~IsLastOfRack(rack_nodes, node.name)
              THEN /\ sc_pc' = "assert_raised"
                   /\ sc_effects' = 0
                   /\ UNCHANGED racks
              ELSE IF ~RackDeclared(racks, node.rack)
              THEN /\ sc_pc' = "raised"
                   /\ sc_effects' = 1
                   /\ UNCHANGED racks
              ELSE /\ racks' = [racks EXCEPT ![node.rack + 1] = current_members - 1]
                   /\ sc_pc' = "deleting"
                   /\ sc_effects' = 2
    /\ UNCHANGED <<podVars, dead_nodes_list, num_nodes, otherThanRacks>>

\* list.remove(node)
RemoveNode(ns, name) == SelectSeq(ns, LAMBDA n : n.name # name)

\* mutant: the racks are left as they are
KeepRacks(rs, rack) == rs

\* lines 2357-2362: the only rack is kept
DeleteRack(rs, rack) ==
    IF Len(rs) = 1 THEN rs
    ELSE [k \in 1..(Len(rs) - 1) |-> IF k < rack + 1 THEN rs[k] ELSE rs[k + 1]]

\* mutant: the wait returns whether or not the pod is there
DeletionAssumed(name) == TRUE

\* lines 2399-2401: 'kubectl wait --for=delete pod <name>' returns
DeletionObserved(name) == ~Present(name)

\* lines 2399-2404: the pod is gone, so 'kubectl wait --for=delete' returns;
\* terminate_node (2372-2385), then the rack is deleted when it had one member
DecommissionWaitDone ==
    /\ sc_pc = "deleting"
    /\ DeletionObserved(sc_node)
    /\ dead_nodes_list' = IF \E k \in 1..Len(dead_nodes_list) : dead_nodes_list[k] = sc_node
                          THEN dead_nodes_list
                          ELSE Append(dead_nodes_list, sc_node)
    /\ nodes' = RemoveNode(nodes, sc_node)
    /\ racks' = IF sc_members = 1 THEN DeleteRack(racks, sc_rack) ELSE racks
    /\ sc_effects' = IF sc_members = 1 /\ Len(racks) > 1 THEN 3 ELSE 2
    /\ sc_pc' = "returned"
    /\ UNCHANGED <<pods, an_pc, an_count, an_found, an_before, an_rack, sc_op, sc_rack,
                   sc_node, sc_members, sc_calls, num_nodes, otherThanRacks>>

\* lines 2399-2401: the pod is still there when pod_terminate_timeout has passed
DecommissionWaitTimeout ==
    /\ sc_pc = "deleting"
    /\ Present(sc_node)
    /\ sc_pc' = "raised"
    /\ UNCHANGED <<podVars, racks, dead_nodes_list, sc_op, sc_rack, sc_node, sc_members,
                   sc_effects, sc_calls, num_nodes, otherThanRacks>>

\* how a call of the pod group can have ended
ScyllaCallEnded ==
    \/ sc_pc \in {"returned", "raised", "assert_raised"}
    \/ sc_pc = "adding" /\ AddNodesEnded

\* the caller has the result, or the exception, and goes on
ScyllaCallEnd ==
    /\ ScyllaCallEnded
    /\ sc_pc' = "idle"
    /\ sc_op' = "none"
    /\ sc_rack' = DefaultRack
    /\ sc_node' = NoNode
    /\ sc_members' = 0
    /\ sc_effects' = 0
    /\ an_pc' = "idle"
    /\ an_count' = 0
    /\ an_found' = <<>>
    /\ an_before' = <<>>
    /\ an_rack' = DefaultRack
    /\ UNCHANGED <<pods, nodes, racks, dead_nodes_list, sc_calls, num_nodes, otherThanRacks>>

\* line 838: the cluster is installed with one rack of no members
RacksIdle ==
    /\ racks = <<0>>
    /\ dead_nodes_list = <<>>
    /\ sc_pc = "idle"
    /\ sc_op = "none"
    /\ sc_rack = DefaultRack
    /\ sc_node = NoNode
    /\ sc_members = 0
    /\ sc_effects = 0
    /\ sc_calls = 0

RECURSIVE SumSeq(_)
SumSeq(q) == IF q = <<>> THEN 0 ELSE q[1] + SumSeq(Tail(q))

\* the pods of the group that the platform holds
GroupPods == {p \in PodIds : Present(p) /\ RunsContainer(p)}

\* a call of the pod group is running: only then does the program look at the pods
ScyllaCallRunning == sc_pc \in {"adding", "deleting"} /\ ~AddNodesEnded

\* the platform's pod changes while a call runs: the operator brings the pods of
\* the group towards the declared members, one pod at a time (a new pod takes
\* the lowest free name), and pods that belong to something else come and go
PlatformStep ==
    \/ \E p \in PodIds :
         /\ PodCreate(p)
         /\ ScyllaCallRunning
         /\ RunsContainer(p) =>
                /\ Cardinality(GroupPods) < SumSeq(racks)
                /\ \A q \in PodIds : (RunsContainer(q) /\ q < p) => Present(q)
    \/ \E p \in PodIds : PodBecomesReady(p) /\ ScyllaCallRunning
    \/ \E p \in PodIds :
         /\ PodDelete(p)
         /\ ScyllaCallRunning
         /\ RunsContainer(p) => Cardinality(GroupPods) > SumSeq(racks)

NextRacks ==
    \/ PlatformStep
    \/ \E count \in 1..MaxAdd, rack \in RackIds : ScyllaAddNodesCall(count, rack)
    \/ AddNodesWaitDone
    \/ AddNodesWaitTimeout
    \/ AddNodesRegister
    \/ \E i \in 1..MaxPods : DecommissionCall(i)
    \/ DecommissionWaitDone
    \/ DecommissionWaitTimeout
    \/ ScyllaCallEnd

(***************************************************************************)
(* Rolling upgrade: ScyllaPodCluster.upgrade_scylla_cluster.  Time is      *)
(* counted in sleeps of pod_readiness_delay seconds; reading a member's    *)
(* image takes no time.                                                    *)
(***************************************************************************)
Versions == {"4.5.3", "4.6.0"}
\* params.get('docker_image')
docker_image == "scylladb/scylla"
\* line 2421: 'node.image' may be 'docker.io/scylladb/scylla:4.5.3' as well as
\* 'scylladb/scylla:4.5.3'; which registry a pod's image names never changes
Registry(p) == IF p % 2 = 0 THEN "docker.io/" ELSE ""
\* lines 1735-1736: the image string, as <<registry, repository, tag>>
ImageOf(p) == <<Registry(p), docker_image, image[p]>>
\* line 2411: f"{docker_image}:{new_version}", as <<repository, tag>>
NewImage(new_version) == <<docker_image, new_version>>
\* str.endswith
EndsWith(img, suffix) == <<img[2], img[3]>> = suffix

\* line 1557, seconds
pod_readiness_delay == 30
\* line 2417: timeout=pod_replace_timeout * 2 * 60 seconds, in sleeps (line 2418)
UpgradeRoundTimeout == (pod_replace_timeout * 2 * 60) \div pod_readiness_delay

\* sdcm.utils.decorators.timeout: after a failed attempt and the sleep, at time e
RetryAfter(e, timeout) == IF e >= timeout THEN "raised" ELSE "polling"

\* mutant: whatever image the member runs counts as the new one
AnyImage(name, new_version) == TRUE

\* line 2423
RunsNewImage(name, new_version) == EndsWith(ImageOf(name), NewImage(new_version))

\* mutant: an upgraded member stays in the list
KeepPending(pending, name) == pending

\* line 2424: nodes_with_old_image.remove(node)
RemoveUpgraded(pending, name) == SelectSeq(pending, LAMBDA n : n # name)

\* lines 2420-2425: the first member of the list that runs the new image, or 0
FirstUpgraded(pending, new_version) ==
    IF \E k \in 1..Len(pending) : RunsNewImage(pending[k], new_version)
    THEN pending[CHOOSE k \in 1..Len(pending) :
                    /\ RunsNewImage(pending[k], new_version)
                    /\ \A j \in 1..(k - 1) : ~RunsNewImage(pending[j], new_version)]
    ELSE NoNode

\* lines 2409-2414 and 2428: declare the version; no members, return at once
UpgradeCall(new_version) ==
    /\ up_pc = "idle"
    /\ up_new' = new_version
    /\ spec_version' = new_version
    /\ up_start' = [k \in 1..Len(nodes) |-> nodes[k].name]
    /\ up_pending' = [k \in 1..Len(nodes) |-> nodes[k].name]
    /\ up_seen' = {}
    /\ up_elapsed' = 0
    /\ up_pc' = IF nodes = <<>> THEN "returned" ELSE "polling"
    /\ UNCHANGED <<image, otherThanUp>>

\* the operator replaces a member's pod by one that runs another version
ImageChange(p, v) ==
    /\ up_pc = "polling"
    /\ Present(p) /\ RunsContainer(p)
    /\ image[p] # v
    /\ image' = [image EXCEPT ![p] = v]
    /\ UNCHANGED <<spec_version, up_pc, up_new, up_start, up_pending, up_seen, up_elapsed,
                   otherThanUp>>

\* lines 2419-2430: one call of the body of wait_till_any_node_get_new_image and
\* what the decorator and the while loop do with its outcome
UpgradePoll ==
    /\ up_pc = "polling"
    /\ LET found == FirstUpgraded(up_pending, up_new) IN
        IF found # NoNode
        THEN LET left == RemoveUpgraded(up_pending, found) IN
             /\ up_pending' = left
             /\ up_seen' = IF image[found] = up_new THEN up_seen \cup {found} ELSE up_seen
             /\ up_elapsed' = 0
             /\ up_pc' = IF left = <<>> THEN "readiness" ELSE "polling"
        ELSE /\ up_elapsed' = up_elapsed + 1
             /\ up_pc' = RetryAfter(up_elapsed + 1, UpgradeRoundTimeout)
             /\ UNCHANGED <<up_pending, up_seen>>
    /\ UNCHANGED <<image, spec_version, up_new, up_start, otherThanUp>>

\* line 2432: wait_for_pods_readiness(len(self.nodes), len(self.nodes))
UpgradeReadiness ==
    /\ up_pc = "readiness"
    /\ up_pc' = IF PodsAreReady(Len(nodes)) THEN "returned" ELSE "wait_raised"
    /\ UNCHANGED <<image, spec_version, up_new, up_start, up_pending, up_seen, up_elapsed,
                   otherThanUp>>

UpgradeEnded == up_pc \in {"returned", "raised", "wait_raised"}

\* the caller has the result, or the exception, and goes on
UpgradeEnd ==
    /\ UpgradeEnded
    /\ up_pc' = "idle"
    /\ up_start' = <<>>
    /\ up_pending' = <<>>
    /\ up_seen' = {}
    /\ up_elapsed' = 0
    /\ UNCHANGED <<image, spec_version, up_new, otherThanUp>>

UpgradeIdle ==
    /\ image = [p \in PodIds |-> "4.5.3"]
    /\ spec_version = "4.5.3"
    /\ up_pc = "idle"
    /\ up_new = "4.5.3"
    /\ up_start = <<>>
    /\ up_pending = <<>>
    /\ up_seen = {}
    /\ up_elapsed = 0

\* a pod group of k members, registered by add_nodes(k) on rack 0
GroupOf(k) == [i \in 1..k |-> [name |-> i + 1, node_index |-> i - 1, rack |-> DefaultRack,
                               ready_when_added |-> TRUE]]
PodsOf(k, foreign) ==
    [p \in PodIds |-> IF p \in ForeignPods THEN foreign
                      ELSE IF p <= k + 1 THEN "ready" ELSE "absent"]

PodsWithGroup ==
    /\ \E k \in 0..(MaxPods - 1), foreign \in {"absent", "notready"} :
         /\ nodes = GroupOf(k)
         /\ pods = PodsOf(k, foreign)
         /\ racks = <<k>>
    /\ an_pc = "idle"
    /\ an_count = 0
    /\ an_found = <<>>
    /\ an_before = <<>>
    /\ an_rack = DefaultRack

NextUpgrade ==
    \/ \E v \in Versions : UpgradeCall(v)
    \/ \E p \in PodIds, v \in Versions : ImageChange(p, v)
    \/ UpgradePoll
    \/ UpgradeReadiness
    \/ UpgradeEnd

(***************************************************************************)
(* The per-tenant cpu limit of deploy_scylla_cluster (lines 963-978).      *)
(* Cpu amounts that are floats in the code are integers here, in units of  *)
(* 1/Scale of a cpu; cpu_limit after int() is in whole cpus as in the code.*)
(***************************************************************************)
Scale == 100
\* line 129: 0.05
OPERATOR_CONTAINERS_RESOURCES_cpu == 5
\* line 138: 0.51
COMMON_CONTAINERS_RESOURCES_cpu == 51
\* line 143: 0.2
SCYLLA_MANAGER_AGENT_RESOURCES_cpu == 20

CpuCapacities == 0..(MaxCpu * Scale)
TenantNumbers == 1..MaxTenants

\* lines 967-970: the float that int() is given, exactly
CpuAfterOverheads(capacity, tenants) ==
    capacity - OPERATOR_CONTAINERS_RESOURCES_cpu * tenants
             - COMMON_CONTAINERS_RESOURCES_cpu
             - SCYLLA_MANAGER_AGENT_RESOURCES_cpu * tenants

\* line 966: int() of a float truncates towards zero.  The float difference
\* of decimal fractions may fall just short of a whole number it equals
\* exactly ('loss'), and is truncated to the next one towards zero then.
TruncToInt(x, loss) ==
    LET a == IF x >= 0 THEN x ELSE -x
        q == a \div Scale
        t == IF a % Scale = 0 /\ q > 0 /\ loss THEN q - 1 ELSE q
    IN IF x >= 0 THEN t ELSE -t

\* mutant: the eighth rounded down
FloorOfEighth(cpu) == cpu \div 8

\* math.ceil(cpu_limit / 8)
CeilOfEighth(cpu) == -((-cpu) \div 8)

\* mutant: 7 of each started 8 cores, whatever the limit was
SevenOfEight(cpu) == CeilOfEighth(cpu) * 7

\* lines 975-977
PerformanceTuned(cpu) ==
    LET new_cpu_limit == CeilOfEighth(cpu) * 7
    IN IF new_cpu_limit < cpu THEN new_cpu_limit ELSE cpu

\* mutant: the limit of one tenant taken times the tenants
TimesTenants(cpu, tenants) == cpu * tenants

\* line 978: cpu_limit // tenants_number (floor division)
FloorDiv(cpu, tenants) == cpu \div tenants

\* line 978: 'x or 1' is 1 for 0 and x for any other number
OrOne(x) == IF x = 0 THEN 1 ELSE x

\* lines 966-978
CpuLimit(capacity, tenants, tuning, loss) ==
    LET truncated == TruncToInt(CpuAfterOverheads(capacity, tenants), loss)
        tuned == IF tuning THEN PerformanceTuned(truncated) ELSE truncated
    IN OrOne(FloorDiv(tuned, tenants))

NotDeployed == 0

\* lines 963-978 and 986: a test run with 'tenants' tenants deploys on the pool
DeployScyllaCluster(tenants) ==
    /\ cpu_prev' = <<tenants_number, calculated_cpu_limit>>
    /\ tenants_number' = tenants
    /\ calculated_cpu_limit' =
          CpuLimit(cpu_capacity, tenants, is_performance_tuning_enabled, fp_loss[tenants])
    /\ UNCHANGED <<cpu_capacity, is_performance_tuning_enabled, fp_loss, otherThanCpu>>

CpuIdle ==
    /\ tenants_number = NotDeployed
    /\ calculated_cpu_limit = 0
    /\ cpu_prev = <<NotDeployed, 0>>

NextCpu == \E tenants \in TenantNumbers : DeployScyllaCluster(tenants)

(***************************************************************************)
(* Namespace allocation: PodCluster.generate_namespace, called by several  *)
(* threads of one process with the same template.  A namespace name is     *)
(* <<template, i>>, for the template followed by '-i', or by nothing when  *)
(* i is 0.                                                                 *)
(***************************************************************************)
NsThreads == 1..MaxThreads
NoNsThread == 0
NoNamespace == <<"", 0>>
namespace_template == "scylla"

\* the namespaces every cluster has
SystemNamespaces ==
    {<<"default", 0>>, <<"kube-system", 0>>, <<"kube-public", 0>>, <<"kube-node-lease", 0>>}

\* line 2123: f"{namespace_template}{'-' + str(i) if i > 1 else ''}"
CandidateNamespace(i) == <<namespace_template, IF i > 1 THEN i ELSE 0>>

\* names left by earlier test runs on the cluster
EarlierNamespaces == {CandidateNamespace(i) : i \in 1..MaxEarlier}

\* mutant: the lock lets every thread in
AlwaysFree(lock) == TRUE

\* line 89: threading.Lock, not re-entrant
LockFree(lock) == lock = NoNsThread

\* mutant: the last candidate that is not in the list, or none
LastFreeCandidate(namespaces) ==
    LET n == Cardinality(namespaces)
        free == {i \in 1..(n - 1) : CandidateNamespace(i) \notin namespaces}
    IN IF free = {} THEN NoNamespace
       ELSE CandidateNamespace(CHOOSE i \in free : \A j \in free : i >= j)

\* mutant: reuse mode whatever the number of tenants
ReuseAnyTenants == reuse_cluster

\* line 2128: reuse_cluster is set and tenants_number < 2
ReuseSingleTenant == reuse_cluster /\ tenants_number < 2

\* lines 2122-2124: the first candidate that is not in the list, or none
FirstFreeCandidate(namespaces) ==
    LET n == Cardinality(namespaces)
        free == {i \in 1..(n - 1) : CandidateNamespace(i) \notin namespaces}
    IN IF free = {} THEN NoNamespace
       ELSE CandidateNamespace(CHOOSE i \in free : \A j \in free : i <= j)

\* line 2119: with NAMESPACE_CREATION_LOCK
NsAcquire(t) ==
    /\ ns_pc[t] = "idle"
    /\ LockFree(ns_lock)
    /\ ns_lock' = t
    /\ ns_pc' = [ns_pc EXCEPT ![t] = "locked"]
    /\ UNCHANGED <<platform_namespaces, reuse_cluster, ns_listed, ns_result, ns_creations,
                   otherThanNs>>

\* lines 2120-2121: kubectl get namespaces
NsList(t) ==
    /\ ns_pc[t] = "locked"
    /\ ns_listed' = [ns_listed EXCEPT ![t] = platform_namespaces]
    /\ ns_pc' = [ns_pc EXCEPT ![t] = "listed"]
    /\ UNCHANGED <<platform_namespaces, reuse_cluster, ns_lock, ns_result, ns_creations,
                   otherThanNs>>

\* leaving the 'with' block releases the lock, whoever took it last
Released(lock, t) == NoNsThread

\* lines 2122-2130: choose, create and return, or raise.  The platform
\* refuses to create a namespace that exists, and kubectl raises then.
NsChooseAndCreate(t) ==
    /\ ns_pc[t] = "listed"
    /\ LET n == Cardinality(ns_listed[t])
           first == CandidateNamespace(1)
           candidate == FirstFreeCandidate(ns_listed[t])
       IN IF n >= 2 /\ first \in ns_listed[t] /\ ReuseSingleTenant
          THEN \* lines 2128-2129
               /\ ns_result' = [ns_result EXCEPT ![t] = first]
               /\ ns_pc' = [ns_pc EXCEPT ![t] = "returned"]
               /\ UNCHANGED <<platform_namespaces, ns_creations>>
          ELSE IF candidate = NoNamespace
          THEN \* line 2130
               /\ ns_pc' = [ns_pc EXCEPT ![t] = "raised"]
               /\ UNCHANGED <<platform_namespaces, ns_creations, ns_result>>
          ELSE IF candidate \in platform_namespaces
          THEN \* line 2125 raises
               /\ ns_pc' = [ns_pc EXCEPT ![t] = "raised"]
               /\ UNCHANGED <<platform_namespaces, ns_creations, ns_result>>
          ELSE \* lines 2125-2126
               /\ platform_namespaces' = platform_namespaces \cup {candidate}
               /\ ns_creations' = ns_creations (+) SetToBag({candidate})
               /\ ns_result' = [ns_result EXCEPT ![t] = candidate]
               /\ ns_pc' = [ns_pc EXCEPT ![t] = "returned"]
    /\ ns_lock' = Released(ns_lock, t)
    /\ UNCHANGED <<reuse_cluster, ns_listed, otherThanNs>>

NsIdle ==
    /\ ns_lock = NoNsThread
    /\ ns_pc = [t \in NsThreads |-> "idle"]
    /\ ns_listed = [t \in NsThreads |-> {}]
    /\ ns_result = [t \in NsThreads |-> NoNamespace]
    /\ ns_creations = EmptyBag

NextNs ==
    \E t \in NsThreads :
        \/ NsAcquire(t)
        \/ NsList(t)
        \/ NsChooseAndCreate(t)

(***************************************************************************)
(* Platform call paths of KubernetesCluster and the rate limiter.  A call  *)
(* is two steps: what the method does before handing over to the command   *)
(* runner, and the request the runner issues.                              *)
(***************************************************************************)
CommandPaths ==
    {"kubectl", "kubectl_no_wait", "kubectl_wait", "kubectl_multi_cmd",
     "helm", "helm_install", "helm_upgrade"}
NoPath == "none"

\* mutant: no path waits for the limiter
NeverAcquires(path) == FALSE

\* lines 341-403: the methods that call api_call_rate_limiter.wait() before
\* the request; kubectl_wait does by calling self.kubectl (line 367)
AcquiresLimiter(path) ==
    path \in {"kubectl", "kubectl_wait", "kubectl_multi_cmd", "helm", "helm_install",
              "helm_upgrade"}

\* the request as the platform sees it
Request(path, held, paused) == [path |-> path, held |-> held, paused |-> paused]
NoRequest == Request(NoPath, FALSE, FALSE)

\* lines 341-403: a caller enters one of the methods
CallPath(path) ==
    /\ rl_pc = "idle"
    /\ rl_requests < MaxRequests
    /\ rl_path' = path
    /\ rl_held' = (api_call_rate_limiter /\ AcquiresLimiter(path))
    /\ rl_pc' = "issuing"
    /\ UNCHANGED <<api_call_rate_limiter, rl_paused, rl_op, rl_requests, rl_last, otherThanRl>>

\* KubernetesOps.kubectl and the helm runner: the request goes out
IssueRequest ==
    /\ rl_pc = "issuing"
    /\ rl_last' = Request(rl_path, rl_held, rl_paused)
    /\ rl_requests' = rl_requests + 1
    /\ rl_held' = FALSE
    /\ rl_path' = NoPath
    /\ rl_pc' = "idle"
    /\ rl_op' = "none"
    /\ UNCHANGED <<api_call_rate_limiter, rl_paused, otherThanRl>>

\* lines 868-870: wait_till_cluster_is_operational enters the pause scope when
\* a limiter is configured
OperationalEnter ==
    /\ rl_pc = "idle"
    /\ rl_requests < MaxRequests
    /\ rl_op' = "wait_till_cluster_is_operational"
    /\ rl_paused' = api_call_rate_limiter
    /\ rl_pc' = IF api_call_rate_limiter THEN "paused" ELSE "pools"
    /\ UNCHANGED <<api_call_rate_limiter, rl_path, rl_held, rl_requests, rl_last, otherThanRl>>

\* lines 871-872: the limiter probes the API inside its pause scope
PausedRequest ==
    /\ rl_pc = "paused"
    /\ rl_requests < MaxRequests - 1
    /\ rl_last' = Request("limiter_probe", FALSE, rl_paused)
    /\ rl_requests' = rl_requests + 1
    /\ UNCHANGED <<api_call_rate_limiter, rl_paused, rl_pc, rl_op, rl_path, rl_held,
                   otherThanRl>>

\* line 872 -> 873: the 'with' block ends
PauseExit ==
    /\ rl_pc = "paused"
    /\ rl_paused' = FALSE
    /\ rl_pc' = "pools"
    /\ UNCHANGED <<api_call_rate_limiter, rl_op, rl_path, rl_held, rl_requests, rl_last,
                   otherThanRl>>

\* lines 873, 1441-1443 and 239-255: wait_all_node_pools_to_be_ready calls
\* wait_for_nodes_readiness of a pool, which calls kubectl_no_wait
PoolsReadiness ==
    /\ rl_pc = "pools"
    /\ rl_path' = "kubectl_no_wait"
    /\ rl_held' = (api_call_rate_limiter /\ AcquiresLimiter("kubectl_no_wait"))
    /\ rl_pc' = "issuing"
    /\ UNCHANGED <<api_call_rate_limiter, rl_paused, rl_op, rl_requests, rl_last, otherThanRl>>

RlIdle ==
    /\ rl_paused = FALSE
    /\ rl_pc = "idle"
    /\ rl_op = "none"
    /\ rl_path = NoPath
    /\ rl_held = FALSE
    /\ rl_requests = 0
    /\ rl_last = NoRequest

NextCalls ==
    \/ \E path \in CommandPaths : CallPath(path)
    \/ IssueRequest
    \/ OperationalEnter
    \/ PausedRequest
    \/ PauseExit
    \/ PoolsReadiness

(***************************************************************************)
(* Teardown of the background tasks: stop_k8s_task_threads.  Time is       *)
(* counted in seconds spent inside the stop calls.                         *)
(***************************************************************************)
\* lines 1288-1299: the tasks in the order they are stopped; the events
\* threads in the order they were started (dict order)
StopOrder ==
    <<<<"scylla_manager_journal", 0>>, <<"cert_manager_journal", 0>>,
      <<"scylla_operator_log_monitor", 0>>, <<"scylla_operator_journal", 0>>,
      <<"scylla_operator_scheduling", 0>>>>
        \o [n \in 1..MaxEventsThreads |-> <<"scylla_cluster_events", n>>]

Tasks == {StopOrder[i] : i \in 1..Len(StopOrder)}

\* mutant: every stop is given the timeout
AlwaysGivenTimeout(task) == TRUE

\* lines 1289-1299: stop(timeout) for all but the log monitor (line 1293: stop())
GivenTimeout(task) == task # <<"scylla_operator_log_monitor", 0>>

\* line 1286: the teardown is called
StopK8sTaskThreadsCall(timeout) ==
    /\ st_pc = 0
    /\ st_timeout' = timeout
    /\ st_pc' = 1
    /\ UNCHANGED <<st_started, st_alive, st_asked, st_elapsed, st_untimed, otherThanSt>>

\* lines 1288-1297: 'if self._..._thread:' is false for a task never started
StopSkip ==
    /\ st_pc \in 1..Len(StopOrder)
    /\ StopOrder[st_pc] \notin st_started
    /\ st_pc' = st_pc + 1
    /\ UNCHANGED <<st_started, st_timeout, st_alive, st_asked, st_elapsed, st_untimed,
                   otherThanSt>>

\* the task's stop(timeout): it is asked to stop and joined for at most
\* 'timeout'; the join returns before that only when the task has ended
StopTimed(d, ended) ==
    /\ st_pc \in 1..Len(StopOrder)
    /\ StopOrder[st_pc] \in st_started
    /\ GivenTimeout(StopOrder[st_pc])
    /\ d \in 0..st_timeout
    /\ d < st_timeout => ended
    /\ st_asked' = [st_asked EXCEPT ![StopOrder[st_pc]] = "timeout"]
    /\ st_alive' = IF ended THEN st_alive \ {StopOrder[st_pc]} ELSE st_alive
    /\ st_elapsed' = st_elapsed + d
    /\ st_pc' = st_pc + 1
    /\ UNCHANGED <<st_started, st_timeout, st_untimed, otherThanSt>>

\* the task's stop(): it is asked to stop; how long the call lasts does not
\* depend on the timeout of the teardown
StopUntimed(d, ended) ==
    /\ st_pc \in 1..Len(StopOrder)
    /\ StopOrder[st_pc] \in st_started
    /\ ~GivenTimeout(StopOrder[st_pc])
    /\ d \in 0..MaxStopWait
    /\ st_asked' = [st_asked EXCEPT ![StopOrder[st_pc]] = "no timeout"]
    /\ st_alive' = IF ended THEN st_alive \ {StopOrder[st_pc]} ELSE st_alive
    /\ st_untimed' = st_untimed + d
    /\ st_pc' = st_pc + 1
    /\ UNCHANGED <<st_started, st_timeout, st_elapsed, otherThanSt>>

StopDone == st_pc = Len(StopOrder) + 1

StIdle ==
    /\ st_alive = st_started
    /\ st_pc = 0
    /\ st_timeout = 0
    /\ st_asked = [task \in Tasks |-> "not asked"]
    /\ st_elapsed = 0
    /\ st_untimed = 0

StFixed == st_started = {} /\ StIdle

NextStop ==
    \/ \E timeout \in 1..MaxStopTimeout : StopK8sTaskThreadsCall(timeout)
    \/ StopSkip
    \/ \E d \in 0..MaxStopTimeout, ended \in BOOLEAN : StopTimed(d, ended)
    \/ \E d \in 0..MaxStopWait, ended \in BOOLEAN : StopUntimed(d, ended)

(***************************************************************************)
(* CloudK8sNodePool.cpu_and_memory_capacity, a cached property.            *)
(***************************************************************************)
PoolNames == {"scylla-pool", "auxiliary-pool"}
\* self.name
ThisPool == "scylla-pool"
CpuValues == {4, 8}
MemoryValues == {16, 32}
Machines == [pool : PoolNames, cpu : CpuValues, memory : MemoryValues]
NoCapacity == <<0, 0>>

\* mutant: the value is computed again at every read
NeverCached(cache) == FALSE

\* line 209, functools.cached_property: the value of the first call that
\* returned is kept in the instance
IsCached(cache) == cache # NoCapacity

\* lines 211-215: the first listed machine that carries the pool's label
FirstLabeled(machines) ==
    LET labeled == {i \in 1..Len(machines) : machines[i].pool = ThisPool}
    IN IF labeled = {} THEN NoCapacity
       ELSE LET i == CHOOSE i \in labeled : \A j \in labeled : i <= j
            IN <<machines[i].cpu, machines[i].memory>>

\* what a read gives its caller: the pair, or RuntimeError (line 216)
Returned(pair) == [raised |-> FALSE, value |-> pair]
Raised == [raised |-> TRUE, value |-> NoCapacity]

\* lines 209-216: one read of the property
CapacityRead ==
    /\ cap_reads < MaxReads
    /\ cap_reads' = cap_reads + 1
    /\ IF IsCached(cap_cache)
       THEN /\ cap_result' = Returned(cap_cache)
            /\ UNCHANGED <<cap_cache, cap_queries>>
       ELSE /\ cap_queries' = cap_queries + 1
            /\ cap_cache' = FirstLabeled(cap_machines)
            /\ cap_result' = IF FirstLabeled(cap_machines) = NoCapacity
                             THEN Raised ELSE Returned(FirstLabeled(cap_machines))
    /\ UNCHANGED <<cap_machines, otherThanCap>>

\* the platform adds a machine to a pool
MachineJoins(m) ==
    /\ Len(cap_machines) < MaxMachines
    /\ cap_machines' = Append(cap_machines, m)
    /\ UNCHANGED <<cap_cache, cap_queries, cap_reads, cap_result, otherThanCap>>

\* the platform takes a machine away
MachineLeaves(i) ==
    /\ i \in 1..Len(cap_machines)
    /\ cap_machines' = [k \in 1..(Len(cap_machines) - 1) |->
                            IF k < i THEN cap_machines[k] ELSE cap_machines[k + 1]]
    /\ UNCHANGED <<cap_cache, cap_queries, cap_reads, cap_result, otherThanCap>>

CapIdle ==
    /\ cap_cache = NoCapacity
    /\ cap_queries = 0
    /\ cap_reads = 0
    /\ cap_result = Returned(NoCapacity)

CapFixed == cap_machines = <<>> /\ CapIdle

NextCap ==
    \/ CapacityRead
    \/ \E m \in Machines : MachineJoins(m)
    \/ \E i \in 1..MaxMachines : MachineLeaves(i)

(***************************************************************************)
(* The handles of the background tasks: the start operations, which put a  *)
(* new task object into an attribute of the cluster object, and the two    *)
(* stop operations, which call stop on what the attributes hold.           *)
(***************************************************************************)
TokenUpdate == <<"token_update", 0>>
EventsHandles == {<<"scylla_cluster_events", n>> : n \in 1..MaxEventsThreads}
Handles == Tasks \cup {TokenUpdate}
TaskObjects == Handles \X (1..MaxStarts)

\* the object an attribute holds; the attributes are None until a start
Held(hs) == {<<h, th_handle[h]>> : h \in {x \in hs : th_handle[x] # 0}}

\* 'self._x_thread = X(...); self._x_thread.start()': a new task object is
\* started and the attribute holds it, whatever it held before
StartAndHold(hs) ==
    /\ \A h \in hs : th_started[h] < MaxStarts
    /\ th_started' = [h \in Handles |-> IF h \in hs THEN th_started[h] + 1 ELSE th_started[h]]
    /\ th_handle' = [h \in Handles |-> IF h \in hs THEN th_started[h] + 1 ELSE th_handle[h]]
    /\ th_alive' = th_alive \cup {<<h, th_started[h] + 1>> : h \in hs}
    /\ th_stops' = {}
    /\ UNCHANGED <<th_asked, otherThanTh>>

\* lines 418-420
start_cert_manager_journal_thread == StartAndHold({<<"cert_manager_journal", 0>>})

\* lines 422-424
start_scylla_manager_journal_thread == StartAndHold({<<"scylla_manager_journal", 0>>})

\* lines 623-629
start_scylla_operator_journal_thread ==
    StartAndHold({<<"scylla_operator_journal", 0>>, <<"scylla_operator_scheduling", 0>>,
                  <<"scylla_operator_log_monitor", 0>>})

\* lines 631-634: the dict entry of the namespace is assigned
start_scylla_cluster_events_thread(namespace) == StartAndHold({namespace})

\* lines 1424-1431
start_token_update_thread == StartAndHold({TokenUpdate})

\* a token update thread ends by itself
TokenThreadEnds(k) ==
    /\ <<TokenUpdate, k>> \in th_alive
    /\ th_alive' = th_alive \ {<<TokenUpdate, k>>}
    /\ UNCHANGED <<th_handle, th_started, th_asked, th_stops, otherThanTh>>

\* lines 1286-1299, the whole call: stop is called on what each of the five
\* attributes and each value of the dict holds
stop_k8s_task_threads ==
    /\ th_asked' = th_asked \cup Held(Tasks)
    /\ th_stops' = th_stops \cup {"stop_k8s_task_threads"}
    /\ UNCHANGED <<th_handle, th_started, th_alive, otherThanTh>>

\* lines 1433-1435: 'if self._token_update_thread and ...is_alive()'
stop_token_update_thread ==
    /\ th_asked' = th_asked \cup (Held({TokenUpdate}) \cap th_alive)
    /\ th_stops' = th_stops \cup {"stop_token_update_thread"}
    /\ UNCHANGED <<th_handle, th_started, th_alive, otherThanTh>>

ThIdle ==
    /\ th_handle = [h \in Handles |-> 0]
    /\ th_started = [h \in Handles |-> 0]
    /\ th_asked = {}
    /\ th_alive = {}
    /\ th_stops = {}

ThFixed == ThIdle

NextHandles ==
    \/ start_cert_manager_journal_thread
    \/ start_scylla_manager_journal_thread
    \/ start_scylla_operator_journal_thread
    \/ \E namespace \in EventsHandles : start_scylla_cluster_events_thread(namespace)
    \/ start_token_update_thread
    \/ \E k \in 1..MaxStarts : TokenThreadEnds(k)
    \/ stop_k8s_task_threads
    \/ stop_token_update_thread

(***************************************************************************)
(* The default events processes registry of sct_events/events_processes.   *)
(* Each thread makes one call; the calls interleave at the lock, at the    *)
(* test of the global and at the return.                                   *)
(***************************************************************************)
Callers == 1..MaxCallers
NoCaller == <<"no thread", 0>>
Holder(t) == <<"thread", t>>
NoRegistry == <<"none", 0>>
ExplicitRegistry == <<"explicit", 0>>
DefaultRegistry(k) == <<"default", k>>
RegistryOps == {<<"create", NoRegistry>>, <<"get", NoRegistry>>, <<"get", ExplicitRegistry>>}
RuntimeErrorRaised == <<"RuntimeError", 0>>

\* mutant: the lock excludes nobody
RegistryLockIgnored(t) == TRUE

\* 'with _EVENTS_PROCESSES_LOCK:' is entered when no other thread holds it
RegistryLockFree(t) == EVENTS_PROCESSES_LOCK \in {NoCaller, Holder(t)}

\* a thread calls create_default_events_process_registry(log_dir) or
\* get_default_events_process_registry(_registry)
RegistryCall(t, o) ==
    /\ reg_pc[t] = "idle"
    /\ reg_op' = [reg_op EXCEPT ![t] = o]
    /\ reg_pc' = [reg_pc EXCEPT ![t] = "called"]
    /\ UNCHANGED <<EVENTS_PROCESSES, EVENTS_PROCESSES_LOCK, reg_result, reg_outcomes,
                   otherThanReg>>

\* lines 165-166: the registry given by the caller is returned as it is
GetExplicit(t) ==
    /\ reg_pc[t] = "called"
    /\ reg_op[t] = <<"get", ExplicitRegistry>>
    /\ reg_result' = [reg_result EXCEPT ![t] = reg_op[t][2]]
    /\ reg_pc' = [reg_pc EXCEPT ![t] = "done"]
    /\ UNCHANGED <<EVENTS_PROCESSES, EVENTS_PROCESSES_LOCK, reg_op, reg_outcomes, otherThanReg>>

\* lines 156, 167: the lock is taken
RegistryLock(t) ==
    /\ reg_pc[t] = "called"
    /\ reg_op[t][2] = NoRegistry
    /\ RegistryLockFree(t)
    /\ EVENTS_PROCESSES_LOCK' = Holder(t)
    /\ reg_pc' = [reg_pc EXCEPT ![t] = "locked"]
    /\ UNCHANGED <<EVENTS_PROCESSES, reg_op, reg_result, reg_outcomes, otherThanReg>>

\* lines 157, 168: 'if _EVENTS_PROCESSES is None'
RegistryTest(t) ==
    /\ reg_pc[t] = "locked"
    /\ reg_pc' = [reg_pc EXCEPT ![t] = IF EVENTS_PROCESSES = NoRegistry THEN "is none"
                                                                       ELSE "is set"]
    /\ UNCHANGED <<EVENTS_PROCESSES, EVENTS_PROCESSES_LOCK, reg_op, reg_result, reg_outcomes,
                   otherThanReg>>

\* leaving the with-block releases the lock the thread holds
LockReleased(t) == IF EVENTS_PROCESSES_LOCK = Holder(t) THEN NoCaller ELSE EVENTS_PROCESSES_LOCK

\* lines 158-159: a registry is constructed, assigned to the global and returned
CreateNew(t) ==
    /\ reg_pc[t] = "is none"
    /\ reg_op[t][1] = "create"
    /\ EVENTS_PROCESSES' = DefaultRegistry(reg_outcomes.constructed + 1)
    /\ reg_result' = [reg_result EXCEPT ![t] = EVENTS_PROCESSES']
    /\ reg_outcomes' = [reg_outcomes EXCEPT !.constructed = @ + 1, !.created = @ + 1]
    /\ EVENTS_PROCESSES_LOCK' = LockReleased(t)
    /\ reg_pc' = [reg_pc EXCEPT ![t] = "done"]
    /\ UNCHANGED <<reg_op, otherThanReg>>

\* line 161: the with-block is left and RuntimeError raised
CreateRefused(t) ==
    /\ reg_pc[t] = "is set"
    /\ reg_op[t][1] = "create"
    /\ reg_result' = [reg_result EXCEPT ![t] = RuntimeErrorRaised]
    /\ reg_outcomes' = [reg_outcomes EXCEPT !.refused = @ + 1]
    /\ EVENTS_PROCESSES_LOCK' = LockReleased(t)
    /\ reg_pc' = [reg_pc EXCEPT ![t] = "done"]
    /\ UNCHANGED <<EVENTS_PROCESSES, reg_op, otherThanReg>>

\* lines 168-170: RuntimeError when the global is None, else the global
GetDefault(t) ==
    /\ reg_pc[t] \in {"is none", "is set"}
    /\ reg_op[t][1] = "get"
    /\ reg_result' = [reg_result EXCEPT ![t] = IF reg_pc[t] = "is none" THEN RuntimeErrorRaised
                                                                     ELSE EVENTS_PROCESSES]
    /\ EVENTS_PROCESSES_LOCK' = LockReleased(t)
    /\ reg_pc' = [reg_pc EXCEPT ![t] = "done"]
    /\ UNCHANGED <<EVENTS_PROCESSES, reg_op, reg_outcomes, otherThanReg>>

\* line 152: _EVENTS_PROCESSES is None when the module is loaded
RegIdle ==
    /\ EVENTS_PROCESSES = NoRegistry
    /\ EVENTS_PROCESSES_LOCK = NoCaller
    /\ reg_pc = [t \in Callers |-> "idle"]
    /\ reg_op = [t \in Callers |-> <<"none", NoRegistry>>]
    /\ reg_result = [t \in Callers |-> NoRegistry]
    /\ reg_outcomes = [constructed |-> 0, created |-> 0, refused |-> 0]

RegFixed == RegIdle

NextRegistry ==
    \E t \in Callers :
        \/ \E o \in RegistryOps : RegistryCall(t, o)
        \/ GetExplicit(t)
        \/ RegistryLock(t)
        \/ RegistryTest(t)
        \/ CreateNew(t)
        \/ CreateRefused(t)
        \/ GetDefault(t)

(***************************************************************************)
(* EventsProcessPipe.outbound_events: one generator per consumer, all on   *)
(* the outbound queue of one pipe.  A consumer passes its own stop_event   *)
(* and events counter (BaseEventsProcess.inbound_events).                  *)
(***************************************************************************)
Consumers == 1..MaxConsumers

\* mutant: the flag is never seen
NeverSet(c) == FALSE

\* line 110: stop_event.is_set()
IsSet(c) == stop_event[c]

\* an event is put on outbound_queue
PutEvent ==
    /\ q_put < MaxEvents
    /\ q_put' = q_put + 1
    /\ outbound_queue' = Append(outbound_queue, q_put + 1)
    /\ UNCHANGED <<stop_event, events_counter, q_pc, q_yielded, q_after, otherThanPipe>>

\* lines 91-92: terminate() sets the consumer's stop_event
Terminate(c) ==
    /\ ~stop_event[c]
    /\ stop_event' = [stop_event EXCEPT ![c] = TRUE]
    /\ UNCHANGED <<outbound_queue, q_put, events_counter, q_pc, q_yielded, q_after,
                   otherThanPipe>>

\* line 110: 'while not stop_event.is_set()': the generator ends or calls get
CheckFlag(c) ==
    /\ q_pc[c] = "check"
    /\ q_pc' = [q_pc EXCEPT ![c] = IF IsSet(c) THEN "done" ELSE "get"]
    /\ UNCHANGED <<outbound_queue, q_put, stop_event, events_counter, q_yielded, q_after,
                   otherThanPipe>>

\* one more queue wait has ended with the flag set
WaitEnded(c) ==
    [q_after EXCEPT ![c] = IF stop_event[c] /\ @ < 2 THEN @ + 1 ELSE @]

\* line 112: get gives the oldest event and the generator yields it
GetAndYield(c) ==
    /\ q_pc[c] = "get"
    /\ outbound_queue # <<>>
    /\ outbound_queue' = Tail(outbound_queue)
    /\ q_yielded' = [q_yielded EXCEPT ![c] = Append(@, Head(outbound_queue))]
    /\ q_after' = WaitEnded(c)
    /\ q_pc' = [q_pc EXCEPT ![c] = "yielded"]
    /\ UNCHANGED <<q_put, stop_event, events_counter, otherThanPipe>>

\* lines 112, 115-116: nothing came within outbound_queue_wait_timeout;
\* queue.Empty is passed over
GetTimesOut(c) ==
    /\ q_pc[c] = "get"
    /\ outbound_queue = <<>>
    /\ q_after' = WaitEnded(c)
    /\ q_pc' = [q_pc EXCEPT ![c] = "check"]
    /\ UNCHANGED <<outbound_queue, q_put, stop_event, events_counter, q_yielded, otherThanPipe>>

\* lines 113-114: the consumer resumes the generator: the counter is raised,
\* stop_event.wait(0) returns at once
ConsumerResumes(c) ==
    /\ q_pc[c] = "yielded"
    /\ events_counter' = [events_counter EXCEPT ![c] = @ + 1]
    /\ q_pc' = [q_pc EXCEPT ![c] = "check"]
    /\ UNCHANGED <<outbound_queue, q_put, stop_event, q_yielded, q_after, otherThanPipe>>

\* lines 65, 104: the counter is 0, the queue empty, the flag clear
PipeIdle ==
    /\ outbound_queue = <<>>
    /\ q_put = 0
    /\ stop_event = [c \in Consumers |-> FALSE]
    /\ events_counter = [c \in Consumers |-> 0]
    /\ q_pc = [c \in Consumers |-> "check"]
    /\ q_yielded = [c \in Consumers |-> <<>>]
    /\ q_after = [c \in Consumers |-> 0]

PipeFixed == PipeIdle

NextPipe ==
    \/ PutEvent
    \/ \E c \in Consumers :
        \/ Terminate(c)
        \/ CheckFlag(c)
        \/ GetAndYield(c)
        \/ GetTimesOut(c)
        \/ ConsumerResumes(c)

(***************************************************************************)
(* StressExporter of loader.py: the constructor of an exporter, run by     *)
(* several threads, and the class-level dict METRICS_GAUGES they share.    *)
(***************************************************************************)
Exporters == 1..MaxExporters
\* lines 129, 156: the name is made of the exporter class and stress_operation
GaugeNames == {"collectd_cassandra_stress_write_gauge", "collectd_scylla_bench_stress_write_gauge"}
NoGauge == <<"none", 0>>
NoGaugeName == "none"

\* line 49: the constructor calls create_metrix_gauge
NewExporter(t, name) ==
    /\ gg_pc[t] = "idle"
    /\ gauge_name' = [gauge_name EXCEPT ![t] = name]
    /\ gg_pc' = [gg_pc EXCEPT ![t] = "test"]
    /\ UNCHANGED <<METRICS_GAUGES, gg_new, stress_metric, gg_calls, otherThanGg>>

\* lines 130, 157: 'if gauge_name not in self.METRICS_GAUGES'
TestGaugeName(t) ==
    /\ gg_pc[t] = "test"
    /\ gg_pc' = [gg_pc EXCEPT ![t] = IF METRICS_GAUGES[gauge_name[t]] = NoGauge THEN "create"
                                                                              ELSE "use"]
    /\ UNCHANGED <<METRICS_GAUGES, gauge_name, gg_new, stress_metric, gg_calls, otherThanGg>>

\* lines 131-134, 158-161: self.metrics.create_gauge(...) is called and gives a gauge
CreateGauge(t) ==
    /\ gg_pc[t] = "create"
    /\ gg_calls' = [gg_calls EXCEPT ![gauge_name[t]] = @ + 1]
    /\ gg_new' = [gg_new EXCEPT ![t] = <<gauge_name[t], gg_calls[gauge_name[t]] + 1>>]
    /\ gg_pc' = [gg_pc EXCEPT ![t] = "store"]
    /\ UNCHANGED <<METRICS_GAUGES, gauge_name, stress_metric, otherThanGg>>

\* lines 131, 158: the gauge is stored under the name
StoreGauge(t) ==
    /\ gg_pc[t] = "store"
    /\ METRICS_GAUGES' = [METRICS_GAUGES EXCEPT ![gauge_name[t]] = gg_new[t]]
    /\ gg_pc' = [gg_pc EXCEPT ![t] = "use"]
    /\ UNCHANGED <<gauge_name, gg_new, stress_metric, gg_calls, otherThanGg>>

\* line 50: self.stress_metric = self.METRICS_GAUGES[gauge_name]
UseGauge(t) ==
    /\ gg_pc[t] = "use"
    /\ stress_metric' = [stress_metric EXCEPT ![t] = METRICS_GAUGES[gauge_name[t]]]
    /\ gg_pc' = [gg_pc EXCEPT ![t] = "built"]
    /\ UNCHANGED <<METRICS_GAUGES, gauge_name, gg_new, gg_calls, otherThanGg>>

\* line 40: METRICS_GAUGES = {}
GgIdle ==
    /\ METRICS_GAUGES = [name \in GaugeNames |-> NoGauge]
    /\ gg_pc = [t \in Exporters |-> "idle"]
    /\ gauge_name = [t \in Exporters |-> NoGaugeName]
    /\ gg_new = [t \in Exporters |-> NoGauge]
    /\ stress_metric = [t \in Exporters |-> NoGauge]
    /\ gg_calls = [name \in GaugeNames |-> 0]

GgFixed == GgIdle

NextGauges ==
    \E t \in Exporters :
        \/ \E name \in GaugeNames : NewExporter(t, name)
        \/ TestGaugeName(t)
        \/ CreateGauge(t)
        \/ StoreGauge(t)
        \/ UseGauge(t)

\* the parts after the capacity part, at rest
LastFixed == ThFixed /\ RegFixed /\ PipeFixed /\ GgFixed

(***************************************************************************)
(* Initial states of the config-map part.                                  *)
(***************************************************************************)
\* what the platform may hold when the orchestrator is constructed
InitStores ==
    { [exists |-> FALSE, data |-> EmptyMap],
      [exists |-> TRUE, data |-> EmptyMap],
      [exists |-> TRUE, data |-> [EmptyMap EXCEPT !["scylla.yaml"] = <<"flow", 1>>]] }

InitCfg ==
    /\ \E s \in InitStores : cm_exists = s.exists /\ cm_data = s.data
    /\ scylla_restart_required = FALSE
    /\ scylla_config_lock = [owner |-> NoThread, count |-> 0]
    /\ frames = [t \in Threads |-> <<>>]
    /\ pc = [t \in Threads |-> "idle"]
    /\ op = [t \in Threads |-> "none"]
    /\ doc_mutated = FALSE

CfgIdle ==
    /\ cm_exists = FALSE
    /\ cm_data = EmptyMap
    /\ scylla_restart_required = FALSE
    /\ scylla_config_lock = [owner |-> NoThread, count |-> 0]
    /\ frames = [t \in Threads |-> <<>>]
    /\ pc = [t \in Threads |-> "idle"]
    /\ op = [t \in Threads |-> "none"]
    /\ doc_mutated = FALSE

\* the steps of thread t, with edit transactions nested at most limit deep
ThreadStep(t, limit) ==
    \/ \E f \in Files : EnterTxn(t, f, limit)
    \/ \E d \in Docs : Modify(t, d)
    \/ ExitFile(t)
    \/ ExitMap(t)
    \/ Release(t)
    \/ Unwind(t)
    \/ DeployBegin(t)
    \/ DeployClear(t)
    \/ WaitForInitCheck(t)
    \/ RestartPatch(t)
    \/ RestartRollout(t)
    \/ RestartClear(t)
    \/ WaitForInitClear(t)

(***************************************************************************)
(* The specifications.                                                     *)
(***************************************************************************)
\* a pool of one cpu, never deployed on
CpuFixed ==
    /\ cpu_capacity = Scale
    /\ is_performance_tuning_enabled = FALSE
    /\ fp_loss = [t \in TenantNumbers |-> FALSE]
    /\ CpuIdle

\* a fresh cluster, no allocation running
NsFixed ==
    /\ platform_namespaces = SystemNamespaces
    /\ reuse_cluster = FALSE
    /\ NsIdle

\* line 291: no limiter, nothing called
RlFixed == api_call_rate_limiter = FALSE /\ RlIdle

\* the parts after the rate limiter, at rest
NewerFixed == StFixed /\ CapFixed /\ LastFixed

RestIdle == RacksIdle /\ UpgradeIdle /\ CpuFixed /\ NsFixed /\ RlFixed /\ NewerFixed

\* Spec: every thread runs operations, each with one transaction open at a time
Init == InitCfg /\ WaitIdle /\ num_nodes = 1 /\ PodsIdle /\ RestIdle
Next == \E t \in Threads : ThreadStep(t, 1)
Spec == Init /\ [][Next]_vars

\* SpecNested: one thread runs the operations one after the other and nests
\* transactions re-entrantly
NextNested == ThreadStep("t1", MaxNest)
SpecNested == Init /\ [][NextNested]_vars

\* SpecRaise: the threads run edit transactions, one of them nesting them,
\* and the body of a transaction may raise
EditStep(t, limit) ==
    \/ \E f \in Files : EnterTxn(t, f, limit)
    \/ \E d \in Docs : Modify(t, d)
    \/ ExitFile(t)
    \/ ExitMap(t)
    \/ Release(t)
    \/ Unwind(t)
    \/ BodyRaises(t)
    \/ BodyRaiseSeen(t)
NextRaise == EditStep("t1", MaxNest) \/ EditStep("t2", 1)
SpecRaise == Init /\ [][NextRaise]_vars

\* SpecWait: the bounded waits, called one after the other
InitW == CfgIdle /\ InitWait /\ PodsIdle /\ RestIdle
SpecWait == InitW /\ [][NextWait]_vars

\* SpecPods: add_nodes calls while the platform changes the pods
InitP == CfgIdle /\ WaitIdle /\ num_nodes = 1 /\ PodsIdle /\ RestIdle
SpecPods == InitP /\ [][NextPods]_vars

\* SpecRacks: add_nodes and decommission calls of the database pod group, one
\* after the other, while the platform changes the pods
\* the machine pool behind the pod group has MaxNodes machines
InitR == CfgIdle /\ WaitIdle /\ num_nodes = MaxNodes /\ PodsIdle /\ RestIdle
SpecRacks == InitR /\ [][NextRacks]_vars

\* SpecRackIndex: the same, with add_nodes also called for a rack index past
\* the end of the declared list
NextRackIndex ==
    \/ NextRacks
    \/ \E count \in 1..MaxAdd : ScyllaAddNodesCall(count, MaxRacks + 1)
SpecRackIndex == InitR /\ [][NextRackIndex]_vars

\* SpecCpu: deployments with any number of tenants on a pool of any capacity
InitC ==
    /\ CfgIdle /\ WaitIdle /\ num_nodes = 1 /\ PodsIdle /\ RacksIdle /\ UpgradeIdle
    /\ cpu_capacity \in CpuCapacities
    /\ is_performance_tuning_enabled \in BOOLEAN
    /\ fp_loss \in [TenantNumbers -> BOOLEAN]
    /\ CpuIdle
    /\ NsFixed /\ RlFixed /\ NewerFixed
SpecCpu == InitC /\ [][NextCpu]_vars

\* SpecCores: deployments on pools of machines with a whole number of cores
MaxCores == 33
InitCores ==
    /\ CfgIdle /\ WaitIdle /\ num_nodes = 1 /\ PodsIdle /\ RacksIdle /\ UpgradeIdle
    /\ cpu_capacity \in {cores * Scale : cores \in 0..MaxCores}
    /\ is_performance_tuning_enabled \in BOOLEAN
    /\ fp_loss = [t \in TenantNumbers |-> FALSE]
    /\ CpuIdle
    /\ NsFixed /\ RlFixed /\ NewerFixed
SpecCores == InitCores /\ [][NextCpu]_vars

\* SpecNs: one generate_namespace call per thread, on a cluster that may hold
\* namespaces of earlier runs
NsTestRun ==
    /\ CfgIdle /\ WaitIdle /\ num_nodes = 1 /\ PodsIdle /\ RacksIdle /\ UpgradeIdle
    /\ cpu_capacity = Scale
    /\ is_performance_tuning_enabled = FALSE
    /\ fp_loss = [t \in TenantNumbers |-> FALSE]
    /\ tenants_number \in TenantNumbers
    /\ calculated_cpu_limit = 0
    /\ cpu_prev = <<NotDeployed, 0>>
    /\ reuse_cluster \in BOOLEAN
    /\ NsIdle
    /\ RlFixed /\ NewerFixed
InitN ==
    /\ NsTestRun
    /\ \E earlier \in SUBSET EarlierNamespaces :
          platform_namespaces = SystemNamespaces \cup earlier
SpecNs == InitN /\ [][NextNs]_vars

\* SpecNsAny: the same calls, on a namespace list of any size and content
\* over the system namespaces and the template's first names
InitNAny ==
    /\ NsTestRun
    /\ platform_namespaces \in SUBSET (SystemNamespaces \cup EarlierNamespaces)
SpecNsAny == InitNAny /\ [][NextNs]_vars

\* SpecCalls: calls of the platform call paths, with and without a limiter
InitL ==
    /\ CfgIdle /\ WaitIdle /\ num_nodes = 1 /\ PodsIdle /\ RacksIdle /\ UpgradeIdle /\ CpuFixed
    /\ NsFixed
    /\ api_call_rate_limiter \in BOOLEAN
    /\ RlIdle
    /\ NewerFixed
SpecCalls == InitL /\ [][NextCalls]_vars

\* the parts before the teardown part, at rest
EarlierIdle ==
    /\ CfgIdle /\ WaitIdle /\ num_nodes = 1 /\ PodsIdle /\ RacksIdle /\ UpgradeIdle /\ CpuFixed
    /\ NsFixed /\ RlFixed

\* SpecStop: one teardown, whatever tasks were started
InitS ==
    /\ EarlierIdle
    /\ st_started \in SUBSET Tasks
    /\ StIdle
    /\ CapFixed /\ LastFixed
SpecStop == InitS /\ [][NextStop]_vars

\* SpecCap: reads of a pool's capacity while machines join and leave
InitCap ==
    /\ EarlierIdle /\ StFixed /\ LastFixed
    /\ cap_machines = <<>>
    /\ CapIdle
SpecCap == InitCap /\ [][NextCap]_vars

\* the parts before the handles part, at rest
SettledIdle == EarlierIdle /\ StFixed /\ CapFixed

\* SpecHandles: start and stop operations of the background tasks in any order
InitHandles == SettledIdle /\ ThIdle /\ RegFixed /\ PipeFixed /\ GgFixed
SpecHandles == InitHandles /\ [][NextHandles]_vars

\* SpecRegistry: calls for the default registry from several threads
InitRegistry == SettledIdle /\ ThFixed /\ RegIdle /\ PipeFixed /\ GgFixed
SpecRegistry == InitRegistry /\ [][NextRegistry]_vars

\* SpecPipe: consumers of one pipe while events are put and flags set
InitPipe == SettledIdle /\ ThFixed /\ RegFixed /\ PipeIdle /\ GgFixed
SpecPipe == InitPipe /\ [][NextPipe]_vars

\* SpecGauges: exporters constructed by several threads
InitGauges == SettledIdle /\ ThFixed /\ RegFixed /\ PipeFixed /\ GgIdle
SpecGauges == InitGauges /\ [][NextGauges]_vars

\* SpecUpgrade: upgrade_scylla_cluster calls on a pod group of some size while
\* the operator replaces pods
InitU ==
    /\ CfgIdle /\ WaitIdle /\ num_nodes = 1
    /\ PodsWithGroup
    /\ dead_nodes_list = <<>> /\ sc_pc = "idle" /\ sc_op = "none" /\ sc_rack = DefaultRack
    /\ sc_node = NoNode /\ sc_members = 0 /\ sc_effects = 0 /\ sc_calls = 0
    /\ UpgradeIdle /\ CpuFixed /\ NsFixed /\ RlFixed /\ NewerFixed
SpecUpgrade == InitU /\ [][NextUpgrade]_vars

\* SpecUpgradeFair: the same, and a running call goes on (the calling thread is
\* never stopped for good)
SpecUpgradeFair ==
    SpecUpgrade /\ WF_vars(UpgradePoll) /\ WF_vars(UpgradeReadiness)

(***************************************************************************)
(* Properties.                                                             *)
(***************************************************************************)
AllFrames == {<<t, i>> \in Threads \X (1..MaxNest + 1) : i <= Len(frames[t])}
Frame(ti) == frames[ti[1]][ti[2]]
\* the transaction has run its diff-and-write (it wrote, or had nothing to write,
\* or its write raised)
Finished(fr) == fr.st \in {"done", "raised"}
\* thread t runs code of its top transaction after the yield, or leaves it
ExitStep(t) ==
    /\ InTxn(t)
    /\ Len(frames'[t]) <= Len(frames[t])
    /\ \/ Len(frames'[t]) < Len(frames[t])
       \/ frames'[t][Len(frames[t])].st # Top(t).st
\* thread t runs lines 1508-1520 for a changed document
ChangedExitFile(t) ==
    /\ InBody(t) /\ FileChanged(Top(t))
    /\ Len(frames'[t]) = Len(frames[t])
    /\ frames'[t][Len(frames[t])].st = "file_done"
StepFrom(t, p) == pc[t] = p /\ pc'[t] # p
AllIdle == \A t \in Threads : pc[t] = "idle"

\* C1: an edit transaction that leaves the yielded document as read issues no
\* create or patch call, and none of its steps changes scylla_restart_required;
\* one that changes the document issues exactly one write call (which may
\* raise), and scylla_restart_required is true when it has done so.
C1_Outcome ==
    \A ti \in AllFrames :
        Finished(Frame(ti)) =>
            IF FileChanged(Frame(ti))
            THEN Frame(ti).writes = 1 /\ scylla_restart_required
            ELSE Frame(ti).writes = 0
C1_Step ==
    \A t \in Threads :
        /\ ((ExitStep(t) /\ ~FileChanged(Top(t)))
                => scylla_restart_required' = scylla_restart_required)
        /\ (ChangedExitFile(t) => scylla_restart_required')
C1_EditContract == [][C1_Outcome' /\ C1_Step]_vars

\* C1 witness: a changed transaction has issued its one write and the flag is set,
\* inside an enclosing transaction that was left unchanged
C1_Witness ==
    /\ Len(frames["t1"]) = 2
    /\ ~FileChanged(frames["t1"][1])
    /\ FileChanged(frames["t1"][2])
    /\ frames["t1"][2].st = "done"
    /\ frames["t1"][2].writes = 1
    /\ scylla_restart_required

\* C2 (as stated): scylla_restart_required goes from false to true only when an
\* edit changed a document, and from true to false only after restart_scylla's
\* rollout has completed (at the end of restart_scylla, and again in
\* wait_for_init after it); no other step clears it.
FlagSetOnlyByEdit ==
    /\ ((~scylla_restart_required /\ scylla_restart_required')
            => \E t \in Threads : ChangedExitFile(t))
    /\ ((\E t \in Threads : ChangedExitFile(t)) => scylla_restart_required')
C2_ClearedOnlyByRestart ==
    [][ /\ FlagSetOnlyByEdit
        /\ ((scylla_restart_required /\ ~scylla_restart_required')
            => \E t \in Threads : StepFrom(t, "rs_clear") \/ StepFrom(t, "wfi_clear"))
      ]_vars

\* C2 (amended): as above, and deploy_scylla_cluster also clears the flag, right
\* after it initialised the config map and before the cluster is installed.
C2_ClearedByRestartOrDeploy ==
    [][ /\ FlagSetOnlyByEdit
        /\ ((scylla_restart_required /\ ~scylla_restart_required')
            => \E t \in Threads : \/ StepFrom(t, "rs_clear")
                                  \/ StepFrom(t, "wfi_clear")
                                  \/ StepFrom(t, "deploy_clear"))
      ]_vars

\* C2 witness: inside wait_for_init, restart_scylla has completed and cleared the
\* flag that an edit of the stored document had set
C2_Witness ==
    \E t \in Threads :
        /\ pc[t] = "wfi_clear"
        /\ ~scylla_restart_required
        /\ cm_exists /\ \E f \in Files : cm_data[f][1] = "block"

\* C3: whenever no operation is running, scylla_restart_required is true if and
\* only if the stored config document was mutated since the pods were last
\* (re)started (the claim states this for every state; it fails already in
\* the states between operations).
C3_FlagIffMutated == AllIdle => (scylla_restart_required <=> doc_mutated)

C5_EqualsPrecedingAttempt ==
    (w_op = "kubectl_wait" /\ w_pc = "returned")
        => /\ w_attempts >= 2
           /\ IsCount(w_prev)
           /\ w_last = w_prev

\* C5 (amended): kubectl_wait returns only on an attempt whose count equals the
\* count of the latest earlier attempt whose command returned (an attempt whose
\* command raised records no count), and never on its first attempt; an attempt
\* whose count differs from that one is not a success.
C5_EqualsLastRecordedCount ==
    (w_op = "kubectl_wait" /\ w_pc = "returned")
        => /\ w_attempts >= 2
           /\ IsCount(w_last)
           /\ w_last = w_prev_counted

\* C5 witness: success on an attempt that follows a failed one
C5_Witness ==
    /\ w_op = "kubectl_wait" /\ w_pc = "returned"
    /\ w_prev = FailedAttempt
    /\ w_attempts = 3

\* C6: a bounded wait that returns normally has its awaited condition satisfied.
WaitSatisfied ==
    CASE w_op = "kubectl_wait" -> IsCount(w_last)
      [] w_op = "nodes_readiness" -> w_last = Counted(num_nodes)
      [] w_op = "pod_readiness" -> w_last = Counted(1)
      [] w_op = "pod_uid" -> UidIsValid(pod_uid, ignore_uid)
      [] OTHER -> TRUE
C6_ReturnMeansSatisfied == w_pc = "returned" => WaitSatisfied

\* C7: wait_for_nodes_readiness runs with an overall timeout of
\* 10 + 10 * num_nodes minutes, returns only after an attempt that reported
\* exactly num_nodes nodes, and raises only once that timeout has passed.
C7_ExactNodeCount ==
    w_op = "nodes_readiness" =>
        /\ w_timeout = 10 + 10 * num_nodes
        /\ (w_pc = "returned" => w_last = Counted(num_nodes))
        /\ (w_pc = "raised" => (w_elapsed >= w_timeout /\ w_last # Counted(num_nodes)))
        /\ (w_pc = "running" /\ w_attempts > 0) =>
                (w_last # Counted(num_nodes) /\ w_elapsed < w_timeout)

\* C7 witness: the wait returned after an earlier attempt reported fewer nodes
C7_Witness ==
    /\ w_op = "nodes_readiness" /\ w_pc = "returned"
    /\ num_nodes = 2
    /\ w_prev = Counted(1)

\* C8: every member of the pod group was Ready when it was appended.
C8_MembersReadyWhenAdded ==
    \A i \in 1..Len(nodes) : nodes[i].ready_when_added

\* C9: add_nodes returns only a list of exactly count nodes, raises whenever it
\* found fewer, and enumerates the pods once (what it found is what it appended).
C9_ReturnsExactlyCount ==
    /\ (an_pc = "returned" => Len(an_found) = an_count)
    /\ ((an_pc \in {"returned", "raised"} /\ Len(an_found) < an_count) => an_pc = "raised")
    /\ (an_pc \in {"returned", "raised"} => nodes = an_before \o an_found)

\* C9 witness: add_nodes raised because it found fewer new pods than asked for
C9_Witness ==
    /\ an_pc = "raised"
    /\ an_count = 2
    /\ Len(an_found) = 1

\* C10: when add_nodes raises on a count mismatch the member list is as it was
\* before the call.
C10_NoPartialRegistration == an_pc = "raised" => nodes = an_before

\* C11: ScyllaPodCluster.add_nodes(count, rack) declares current_members + count
\* members for the rack, where current_members is the number of members the
\* rack had at the call (count for an empty rack, n1 + n2 after two calls), and
\* when it returns the rack has that many members and the member list is longer
\* by count; no two members ever have the same pod name.
C11_AddNodesGrowsRack ==
    /\ (sc_op = "add_nodes" /\ sc_pc = "adding")
            => /\ RackDeclared(racks, sc_rack)
               /\ racks[sc_rack + 1] = sc_members + an_count
    /\ (sc_op = "add_nodes" /\ sc_pc = "adding" /\ an_pc = "returned")
            => /\ Len(get_rack_nodes(nodes, sc_rack)) = sc_members + an_count
               /\ Len(nodes) = Len(an_before) + an_count
    /\ \A i, j \in 1..Len(nodes) : i # j => nodes[i].name # nodes[j].name

\* C11 witness: the second add_nodes(1) on a rack returned: two declared, two members
C11_Witness ==
    /\ sc_op = "add_nodes" /\ sc_pc = "adding" /\ an_pc = "returned"
    /\ sc_members = 1 /\ an_count = 1
    /\ racks[sc_rack + 1] = 2
    /\ Len(nodes) = 2

\* C12: a decommission call for a node that is not the last member (by name) of
\* its rack ends with the assertion error in the same step: declared racks,
\* member list and dead-nodes list are unchanged and no platform write or wait
\* has been issued.
C12_NonLastDecommissionRaises ==
    [][ (sc_pc = "idle" /\ sc_op' = "decommission")
            => LET later == {i \in 1..Len(nodes) :
                                nodes[i].rack = sc_rack' /\ nodes[i].name > sc_node'}
               IN  later # {}
                     => /\ sc_pc' = "assert_raised"
                        /\ sc_effects' = 0
                        /\ racks' = racks
                        /\ nodes' = nodes
                        /\ dead_nodes_list' = dead_nodes_list
                        /\ pods' = pods
      ]_vars

\* C12 witness: decommission of the first of two members of a rack has raised
C12_Witness ==
    /\ sc_op = "decommission" /\ sc_pc = "assert_raised"
    /\ Len(get_rack_nodes(nodes, sc_rack)) = 2
    /\ get_rack_nodes(nodes, sc_rack)[1].name = sc_node

\* C13: the declared members of all racks together never exceed the number of
\* machines of the pool behind the pod group.
C13_DeclaredWithinBudget == SumSeq(racks) <= num_nodes

\* C14: upgrade_scylla_cluster(new_version) returns normally only if the spec's
\* version is new_version and every member that was in the group when polling
\* started has been seen running the image '<docker_image>:<new_version>' (a
\* group without members returns right after declaring the version).
C14_ReturnsOnlyUpgraded ==
    /\ (up_pc \in {"polling", "readiness", "returned"} => spec_version = up_new)
    /\ (up_pc \in {"readiness", "returned"}
            => \A k \in 1..Len(up_start) : up_start[k] \in up_seen)
    /\ (up_pc \in {"polling", "raised"}
            => \A k \in 1..Len(up_start) :
                  up_start[k] \in up_seen
                    \/ \E j \in 1..Len(up_pending) : up_pending[j] = up_start[k])

\* C14 witness: the call returned after both members of the group were seen
\* running the new image
C14_Witness ==
    /\ up_pc = "returned"
    /\ up_new = "4.6.0"
    /\ Len(up_start) = 2
    /\ up_seen = {2, 3}

\* C15: a poll round never lasts longer than 2 x pod_replace_timeout, it runs
\* only while members are pending, every round that succeeds takes a member
\* off the list, and a running upgrade always ends: with the readiness wait
\* after the last member, or with the timeout error.
C15_UpgradeTerminates ==
    /\ [](up_pc = "polling" => (up_pending # <<>> /\ up_elapsed < UpgradeRoundTimeout))
    /\ [](up_pc = "raised" => (up_pending # <<>> /\ up_elapsed = UpgradeRoundTimeout))
    /\ [][up_pc = "polling" =>
            (\/ Len(up_pending') < Len(up_pending)
             \/ up_elapsed' > up_elapsed
             \/ (up_pending' = up_pending /\ up_elapsed' = up_elapsed))]_vars
    /\ ((up_pc = "polling") ~> (up_pc \in {"readiness", "raised"}))

\* C15 witness: one member was upgraded, the other never was, and the call raised
C15_Witness ==
    /\ up_pc = "raised"
    /\ Len(up_start) = 2
    /\ Len(up_pending) = 1
    /\ up_elapsed = UpgradeRoundTimeout

\* the declared overheads of a deployment with the given tenants
C16_Overheads(tenants) ==
    OPERATOR_CONTAINERS_RESOURCES_cpu * tenants + COMMON_CONTAINERS_RESOURCES_cpu
        + SCYLLA_MANAGER_AGENT_RESOURCES_cpu * tenants

\* tenants times the per-tenant limit plus the overheads, in 1/Scale of a cpu
C16_Sum == tenants_number * calculated_cpu_limit * Scale + C16_Overheads(tenants_number)

\* C16 as stated: for all tenants and every capacity, tenants times the
\* per-tenant limit plus the declared overheads never exceeds the capacity.
C16_SumWithinCapacity ==
    tenants_number # NotDeployed => C16_Sum <= cpu_capacity

\* C16 amended: when the capacity covers the overheads and one whole cpu per
\* tenant, tenants times the limit plus the overheads does not exceed it;
\* when it does not, the limit is 1 or -1, and with 1 the sum exceeds the
\* capacity.
C16_SumWithinCapacityIfOneEach ==
    tenants_number # NotDeployed =>
        IF cpu_capacity >= tenants_number * Scale + C16_Overheads(tenants_number)
        THEN calculated_cpu_limit >= 1 /\ C16_Sum <= cpu_capacity
        ELSE /\ calculated_cpu_limit \in {1, -1}
             /\ (calculated_cpu_limit = 1 => C16_Sum > cpu_capacity)

\* C16 witness: of 9 cpus 8 are left after the overheads, and tuning gives
\* the one tenant 7 of them
C16_Witness ==
    /\ tenants_number = 1
    /\ is_performance_tuning_enabled
    /\ cpu_capacity = 9 * Scale
    /\ calculated_cpu_limit = 7
    /\ C16_Sum <= cpu_capacity

\* C17 as stated: the per-tenant limit is an integer of at least 1 for all
\* tenants and all capacities, without tuning it is the floor of the capacity
\* less the overheads, divided by tenants, or 1 if that is less; capacity 8
\* with 2 tenants gives 3.
C17_FloorAtLeastOne ==
    tenants_number # NotDeployed =>
        /\ calculated_cpu_limit >= 1
        /\ (~is_performance_tuning_enabled /\ ~fp_loss[tenants_number]) =>
              LET q == (CpuAfterOverheads(cpu_capacity, tenants_number) \div Scale)
                          \div tenants_number
              IN calculated_cpu_limit = IF q < 1 THEN 1 ELSE q
        /\ (cpu_capacity = 8 * Scale /\ tenants_number = 2
                /\ ~is_performance_tuning_enabled) => calculated_cpu_limit = 3

\* C18: on one pool, of two deployments the one with no more tenants gets no
\* smaller a per-tenant limit, with and without performance tuning.
C18_NonIncreasingInTenants ==
    (cpu_prev[1] # NotDeployed /\ cpu_prev[1] <= tenants_number)
        => cpu_prev[2] >= calculated_cpu_limit

\* C18 witness: with tuning, 7 cpus for one tenant and then 2 for each of three
C18_Witness ==
    /\ cpu_prev = <<1, 7>>
    /\ tenants_number = 3
    /\ calculated_cpu_limit = 2
    /\ is_performance_tuning_enabled

\* C19: not in reuse mode, the generate_namespace calls of the threads return
\* pairwise distinct names; each returned name is on the platform and was
\* created exactly once; no call raises; and at most one call is between
\* taking the lock and its creation, with nothing created since it listed.
C19_DistinctCreatedOnce ==
    ~reuse_cluster =>
        /\ \A t \in NsThreads : ns_pc[t] # "raised"
        /\ \A t, u \in NsThreads :
              (t # u /\ ns_pc[t] = "returned" /\ ns_pc[u] = "returned")
                    => ns_result[t] # ns_result[u]
        /\ \A t \in NsThreads : ns_pc[t] = "returned" =>
              /\ ns_result[t] \in platform_namespaces
              /\ CopiesIn(ns_result[t], ns_creations) = 1
        /\ \A t, u \in NsThreads :
              (ns_pc[t] \in {"locked", "listed"} /\ ns_pc[u] \in {"locked", "listed"}) => t = u
        /\ \A t \in NsThreads : ns_pc[t] = "listed" => ns_listed[t] = platform_namespaces

\* C19 witness: every thread has its name, on a cluster where the template's
\* own name was taken before
C19_Witness ==
    /\ ~reuse_cluster
    /\ \A t \in NsThreads : ns_pc[t] = "returned"
    /\ Cardinality({ns_result[t] : t \in NsThreads}) = MaxThreads
    /\ CopiesIn(CandidateNamespace(1), ns_creations) = 0

C22_MapExited(t) ==
    /\ InTxn(t) /\ Top(t).st = "file_done"
    /\ Len(frames'[t]) = Len(frames[t])
    /\ frames'[t][Len(frames[t])].st = "done"

\* the document a transaction for file f would read from the given data map
C22_DocRead(data, f) == OrEmptyDoc(safe_load(DictGet(data, f)))

C24_PatchAltersOnlyItsEntry ==
    [][ \A t \in Threads :
          (C22_MapExited(t) /\ Top(t).exists /\ Top(t).old_data # Top(t).new_data) =>
              \A f \in Files \ {Top(t).filename} : cm_data'[f] = cm_data[f]
      ]_vars

\* C23: a read without a cached pair makes exactly one platform query; if no
\* listed machine carries the pool's label it raises and nothing is cached;
\* otherwise it returns and caches the cpu and memory of one labeled machine;
\* after that every read returns the cached pair without a query, and the
\* cached pair never changes.
C23_QueriesOnceAndCaches ==
    [][ /\ cap_reads' # cap_reads =>
              IF cap_cache # NoCapacity
              THEN cap_result' = Returned(cap_cache) /\ cap_queries' = cap_queries
              ELSE /\ cap_queries' = cap_queries + 1
                   /\ IF \E i \in 1..Len(cap_machines) : cap_machines[i].pool = ThisPool
                      THEN /\ \E i \in 1..Len(cap_machines) :
                                /\ cap_machines[i].pool = ThisPool
                                /\ cap_result' =
                                      Returned(<<cap_machines[i].cpu, cap_machines[i].memory>>)
                           /\ cap_cache' = cap_result'.value
                      ELSE cap_result' = Raised /\ cap_cache' = NoCapacity
        /\ cap_cache # NoCapacity => cap_cache' = cap_cache
      ]_vars

\* C23 witness: the first read raised, the second queried and cached, the third
\* returned the cached pair although the machine it came from is gone
C23_Witness ==
    /\ cap_reads = 3
    /\ cap_queries = 2
    /\ cap_result = Returned(cap_cache)
    /\ cap_cache # NoCapacity
    /\ cap_machines = <<>>

\* the declared members of rack r, 0 for a rack that is not declared
C25_Declared(rs, r) == IF r + 1 <= Len(rs) THEN rs[r + 1] ELSE 0

\* C25 as stated: add_nodes(count, rack=r) appends a rack of zero members when
\* rack r is not declared, then raises the declared members of rack r by
\* exactly count over its declared value before the call, and then runs the
\* add protocol of the pod group.
C25_DeclaredRaisedByCount ==
    [][ (sc_pc = "idle" /\ sc_op' = "add_nodes" /\ sc_pc' = "adding") =>
            /\ Len(racks') = IF sc_rack' + 1 <= Len(racks) THEN Len(racks) ELSE Len(racks) + 1
            /\ \A r \in RackIds : r # sc_rack' => C25_Declared(racks', r) = C25_Declared(racks, r)
            /\ racks'[sc_rack' + 1] = C25_Declared(racks, sc_rack') + an_count'
            /\ an_pc' = "waiting" /\ nodes' = nodes
      ]_vars

\* a member is taken off the member list in this step
C26_Removed == {nodes[k].name : k \in 1..Len(nodes)} \ {nodes'[k].name : k \in 1..Len(nodes')}

C27_EmptyRackRemoved ==
    [][ /\ (sc_op = "decommission" /\ sc_pc = "deleting" /\ sc_pc' = "returned") =>
              IF racks[sc_rack + 1] = 0 /\ Len(racks) > 1
              THEN /\ Len(racks') = Len(racks) - 1
                   /\ \A k \in 1..Len(racks') :
                         racks'[k] = IF k < sc_rack + 1 THEN racks[k] ELSE racks[k + 1]
              ELSE racks' = racks
        /\ (sc_op = "decommission" /\ sc_pc' # "returned") => Len(racks') = Len(racks)
      ]_vars

\* C27 witness: the last member of rack 1 was withdrawn and rack 0 is the
\* only rack left
C27_Witness ==
    /\ sc_op = "decommission" /\ sc_pc = "returned"
    /\ sc_rack = 1
    /\ sc_members = 1
    /\ Len(racks) = 1

\* the names of the members of a list
C28_Names(ns) == {ns[k].name : k \in 1..Len(ns)}

\* C28: a call of add_nodes(count) waits once, for len(nodes) + count ready
\* pods, and lists the pods only after that wait has returned; the listing
\* step appends to the member list every present pod of the group's
\* container whose name is not tracked, each with node_index equal to the
\* length of the list at its registration, and appends no tracked pod.
C28_OneWaitThenRegisterUntracked ==
    [][ /\ an_pc' = "waiting" => an_pc \in {"idle", "waiting"}
        /\ (an_pc' = "listing" /\ an_pc # "listing") =>
              /\ an_pc = "waiting"
              /\ \A p \in PodIds : Present(p) => IsReady(p)
              /\ Cardinality({p \in PodIds : IsReady(p)}) = Len(nodes) + an_count
        /\ nodes' # nodes => an_pc = "listing"
        /\ (an_pc = "listing" /\ an_pc' # "listing") =>
              /\ an_pc' \in {"returned", "raised"}
              /\ Len(nodes') >= Len(nodes)
              /\ \A k \in 1..Len(nodes) : nodes'[k] = nodes[k]
              /\ \A k \in (Len(nodes) + 1)..Len(nodes') :
                    /\ nodes'[k].node_index = k - 1
                    /\ nodes'[k].name \notin C28_Names(nodes)
                    /\ nodes'[k].name \notin ForeignPods
                    /\ Present(nodes'[k].name)
                    /\ \A j \in 1..Len(nodes') : j # k => nodes'[j].name # nodes'[k].name
              /\ \A p \in PodIds :
                    (Present(p) /\ p \notin ForeignPods) => p \in C28_Names(nodes')
      ]_vars

\* C28 witness: a call on a group that tracks one member has returned with a
\* second one, registered with node_index 1, while a pod without the group's
\* container is listed too
C28_Witness ==
    /\ an_pc = "returned"
    /\ Len(an_before) = 1
    /\ Len(nodes) = 2
    /\ nodes[2].node_index = 1
    /\ nodes[1].name # nodes[2].name
    /\ Present(1)

\* the template's name and its numbered names
C29_InSequence(name) == name[1] = namespace_template

\* the lowest-numbered name of the sequence that is not in the list
C29_LowestFree(namespaces) ==
    LET free == {i \in 1..(Cardinality(namespaces) + 1) : CandidateNamespace(i) \notin namespaces}
    IN CandidateNamespace(CHOOSE i \in free : \A j \in free : i <= j)

\* the call of thread t took the reuse exit of line 2129
C29_ReuseExit(t) ==
    ReuseSingleTenant /\ Cardinality(ns_listed[t]) >= 2 /\ CandidateNamespace(1) \in ns_listed[t]

\* C29 as stated: not in reuse mode, generate_namespace returns the
\* lowest-numbered name of template, template-2, ... that is not in the list
\* it read, created once on the platform, and it never raises, whatever the
\* size and content of the list.
C29_LowestFreeForEveryList ==
    ~reuse_cluster =>
        \A t \in NsThreads :
            /\ ns_pc[t] # "raised"
            /\ ns_pc[t] = "returned" =>
                  /\ ns_result[t] = C29_LowestFree(ns_listed[t])
                  /\ ns_result[t] \in platform_namespaces
                  /\ CopiesIn(ns_result[t], ns_creations) = 1

\* C29 amended: a call that does not take the reuse exit returns the
\* lowest-numbered name of the sequence that is not in the list it read,
\* created once on the platform; it raises exactly when the first
\* len(list) - 1 names of the sequence are all in the list, which does not
\* happen with two or more listed names from outside the sequence.
C29_LowestFreeAmongFirstNames ==
    \A t \in NsThreads :
        LET n == Cardinality(ns_listed[t])
        IN  /\ (ns_pc[t] = "returned" /\ ~C29_ReuseExit(t)) =>
                  /\ ns_result[t] = C29_LowestFree(ns_listed[t])
                  /\ ns_result[t] \notin ns_listed[t]
                  /\ ns_result[t] \in platform_namespaces
                  /\ CopiesIn(ns_result[t], ns_creations) = 1
            /\ (ns_pc[t] \in {"returned", "raised"} /\ ~C29_ReuseExit(t)) =>
                  (ns_pc[t] = "raised" <=>
                        \A i \in 1..(n - 1) : CandidateNamespace(i) \in ns_listed[t])
            /\ Cardinality({name \in ns_listed[t] : ~C29_InSequence(name)}) >= 2 =>
                  ns_pc[t] # "raised"

\* C29 witness: with the template's name and its second name listed next to
\* two other namespaces, a call has created and returned the third name
C29_Witness ==
    \E t \in NsThreads :
        /\ ~reuse_cluster
        /\ ns_pc[t] = "returned"
        /\ Cardinality(ns_listed[t]) = 4
        /\ {CandidateNamespace(1), CandidateNamespace(2)} \subseteq ns_listed[t]
        /\ ns_result[t] = CandidateNamespace(3)
        /\ CopiesIn(ns_result[t], ns_creations) = 1

\* C30: when a call chooses, in reuse mode with fewer than two tenants it
\* returns the template's bare name, without a create when that namespace is
\* listed and after creating it otherwise; in reuse mode with two or more
\* tenants, and without reuse mode, a listed template name is not returned
\* and the lowest free name is created.
C30_ReuseReturnsBareTemplate ==
    [][ \A t \in NsThreads :
          (ns_pc[t] = "listed" /\ ns_pc'[t] # "listed") =>
             LET bare == CandidateNamespace(1)
                 single == reuse_cluster /\ tenants_number = 1
             IN  /\ single =>
                       /\ ns_pc'[t] = "returned"
                       /\ ns_result'[t] = bare
                 /\ (single /\ bare \in ns_listed[t]) =>
                       /\ platform_namespaces' = platform_namespaces
                       /\ ns_creations' = ns_creations
                 /\ (single /\ bare \notin ns_listed[t]) =>
                       /\ platform_namespaces' = platform_namespaces \cup {bare}
                       /\ CopiesIn(bare, ns_creations') = CopiesIn(bare, ns_creations) + 1
                 /\ (~single /\ bare \in ns_listed[t]) =>
                       /\ ns_pc'[t] = "returned"
                       /\ ns_result'[t] # bare
                       /\ ns_result'[t] = C29_LowestFree(ns_listed[t])
                       /\ CopiesIn(ns_result'[t], ns_creations') = 1
      ]_vars

\* C30 witness: a single-tenant call in reuse mode has returned the bare
\* template name, which was there before and was not created
C30_Witness ==
    \E t \in NsThreads :
        /\ reuse_cluster /\ tenants_number = 1
        /\ ns_pc[t] = "returned"
        /\ CandidateNamespace(1) \in ns_listed[t]
        /\ ns_result[t] = CandidateNamespace(1)
        /\ CopiesIn(CandidateNamespace(1), ns_creations) = 0

\* the cpu value before the division by the tenants number, without tuning
C31_Untuned == TruncToInt(CpuAfterOverheads(cpu_capacity, tenants_number), fp_loss[tenants_number])

\* the cpu value before the division, as the latest deployment had it: with one
\* tenant the limit is that value, or 1 in place of 0
C31_Used == calculated_cpu_limit

\* one core left out of every full 8 cores
C31_SevenOfEveryEight(cores) == cores - (cores \div 8)

C32_DeclaredEqualsTracked ==
    sc_pc = "idle" =>
        \A r \in 0..(MaxRacks + 1) :
            C25_Declared(racks, r) = Cardinality({k \in 1..Len(nodes) : nodes[k].rack = r})

\* C36 as stated: when add_nodes has run _create_k8s_rack_if_not_exists(r),
\* for any r >= 0, a rack is declared at index r, so the write of its members
\* that follows does not fail; the racks declared before stay where they are
\* and none is added when rack r was declared.
C36_RackAtIndexAfterCreate ==
    [][ (sc_pc = "idle" /\ sc_op' = "add_nodes") =>
            /\ sc_rack' + 1 <= Len(racks')
            /\ sc_pc' # "raised"
            /\ \A k \in 1..Len(racks) : k # sc_rack' + 1 => racks'[k] = racks[k]
            /\ sc_rack' + 1 <= Len(racks) => Len(racks') = Len(racks)
      ]_vars

\* C33 as stated: when the outermost transaction of a thread completes its
\* diff-and-write after a transaction nested in it has written, the entries
\* of the other files are stored as the nested transactions left them: the
\* outer write does not overwrite a nested change.
C33_NestedChangeKept ==
    [][ \A t \in Threads :
          (C22_MapExited(t) /\ Len(frames[t]) = 1 /\ Top(t).stale) =>
              \A f \in Files \ {Top(t).filename} : ReadConfigMap'[f] = ReadConfigMap[f]
      ]_vars

\* the body of thread t's top transaction raises in this step
C34_BodyRaised(t) == InBody(t) /\ Len(frames'[t]) < Len(frames[t])

\* C34: when the body of an edit transaction raises, the step issues no
\* create or patch (the transaction has no write and the stored document and
\* its existence stay), scylla_restart_required stays, and the lock is
\* released once: the transactions the thread still has open keep it, and
\* with none open it is free for every thread; code after the yields runs
\* only for a transaction whose body did not raise.
C34_RaisingBodyWritesNothing ==
    [][ \A t \in Threads :
          C34_BodyRaised(t) =>
              /\ Top(t).writes = 0
              /\ cm_data' = cm_data /\ cm_exists' = cm_exists
              /\ scylla_restart_required' = scylla_restart_required
              /\ scylla_config_lock'.count = scylla_config_lock.count - 1
              /\ scylla_config_lock'.count = Len(frames'[t])
              /\ scylla_config_lock'.owner = (IF Len(frames'[t]) = 0 THEN NoThread ELSE t)
              /\ Len(frames'[t]) = 0 =>
                    \A u \in Threads :
                        scylla_config_lock'.owner = NoThread \/ scylla_config_lock'.owner = u
      ]_vars

\* C34 witness: the body of a transaction of t1 has raised, nothing was
\* stored, and t2 is inside a transaction of its own
C34_Witness ==
    /\ pc["t1"] = "body_raised"
    /\ ~InTxn("t1")
    /\ InBody("t2")
    /\ scylla_config_lock = [owner |-> "t2", count |-> 1]
    /\ ~scylla_restart_required
    /\ ~cm_exists

\* the latest attempt of the running wait reported the count recorded before it
C35_SameAsRecorded == IsCount(w_last) /\ w_last = w_prev_counted

\* C35: kubectl_wait does not go on after an attempt that reported the count
\* recorded before it, so when the command succeeds with one count from some
\* attempt on, the first of these attempts records the count and the second
\* returns, unless the overall timeout ended the wait after the first; a wait
\* whose every attempt reports another count than the one before (or fails)
\* never returns, is given up only when the timeout has passed, and does not
\* run past it.
C35_ConstantCountReturnsInTwo ==
    w_op = "kubectl_wait" =>
        /\ (w_pc = "running" /\ w_attempts >= 1) => ~C35_SameAsRecorded
        /\ (w_pc = "running" /\ w_attempts >= 2) =>
                ~(IsCount(w_last) /\ IsCount(w_prev) /\ w_last = w_prev)
        /\ (w_pc = "returned") <=> (w_attempts >= 1 /\ w_pc # "running" /\ C35_SameAsRecorded)
        /\ (w_pc = "raised") =>
                (w_elapsed >= w_timeout /\ ~C35_SameAsRecorded)
        /\ (w_pc = "running") => w_elapsed < w_timeout \/ w_attempts = 0
        /\ w_attempts <= w_elapsed

\* C35 witness: after a changing count and a failed attempt the command
\* reported 2 twice, and the wait returned on the second of these attempts
C35_Witness ==
    /\ w_op = "kubectl_wait" /\ w_pc = "returned"
    /\ w_attempts = 4
    /\ w_last = Counted(2) /\ w_prev = Counted(2)
    /\ w_elapsed <= w_timeout

\* C37: once stop_k8s_task_threads and stop_token_update_thread have both run
\* after the latest start, every task object ever started has had its stop
\* called or has ended by itself, the objects whose attribute was assigned
\* again by a later start included.
C37_EveryStartedTaskAsked ==
    th_stops = {"stop_k8s_task_threads", "stop_token_update_thread"} =>
        \A h \in Handles : \A k \in 1..th_started[h] :
            <<h, k>> \in th_asked \/ <<h, k>> \notin th_alive

\* a call without an explicit registry has ended on thread t
C38_Ended(t, name) ==
    reg_pc[t] = "done" /\ reg_op[t] = <<name, NoRegistry>>

\* the step in which a get without an explicit registry ends
C38_GetEnds(t) ==
    reg_op[t] = <<"get", NoRegistry>> /\ reg_pc[t] # "done" /\ reg_pc'[t] = "done"

\* C38: of the calls of create_default_events_process_registry, sequential or
\* concurrent, at most one constructs and returns a registry, exactly one
\* once any of them has ended, and every other raises RuntimeError; a get
\* without explicit registry that finds no default raises RuntimeError and
\* one that finds it returns that one registry, which is never replaced.
C38_OneDefaultRegistry ==
    /\ [](/\ reg_outcomes.created <= 1
          /\ reg_outcomes.constructed = reg_outcomes.created
          /\ reg_outcomes.created + reg_outcomes.refused >= 1 => reg_outcomes.created = 1
          /\ EVENTS_PROCESSES \in {NoRegistry, DefaultRegistry(1)}
          /\ (EVENTS_PROCESSES = NoRegistry) <=> (reg_outcomes.created = 0)
          /\ \A t \in Callers :
                /\ C38_Ended(t, "create") =>
                        reg_result[t] \in {DefaultRegistry(1), RuntimeErrorRaised}
                /\ C38_Ended(t, "get") =>
                        reg_result[t] \in {DefaultRegistry(1), RuntimeErrorRaised}
                /\ (C38_Ended(t, "get") /\ reg_result[t] # RuntimeErrorRaised) =>
                        reg_result[t] = EVENTS_PROCESSES)
    /\ [][/\ EVENTS_PROCESSES # NoRegistry => EVENTS_PROCESSES' = EVENTS_PROCESSES
          /\ \A t \in Callers :
                C38_GetEnds(t) =>
                    reg_result'[t] = IF EVENTS_PROCESSES = NoRegistry
                                     THEN RuntimeErrorRaised ELSE DefaultRegistry(1)]_vars

\* C38 witness: one create returned the registry, another raised, one get
\* raised before the registry existed
C38_Witness ==
    /\ C38_Ended(1, "create") /\ reg_result[1] = DefaultRegistry(1)
    /\ C38_Ended(2, "create") /\ reg_result[2] = RuntimeErrorRaised
    /\ C38_Ended(3, "get") /\ reg_result[3] = RuntimeErrorRaised
    /\ EVENTS_PROCESSES = DefaultRegistry(1)

\* the events of a sequence
C39_Events(seq) == {seq[i] : i \in 1..Len(seq)}

\* C39: every consumer is yielded events in the order they were put; an
\* event put is either still queued or was yielded to exactly one consumer;
\* a consumer's counter is the number of events yielded to it, less one while
\* the generator is suspended at the yield; once the flag is set at most one
\* queue wait ends before the generator terminates, and a terminated
\* generator yields nothing.
C39_PipeYieldsInOrderOnce ==
    /\ [](/\ \A c \in Consumers :
                /\ \A i, j \in 1..Len(q_yielded[c]) :
                        i < j => q_yielded[c][i] < q_yielded[c][j]
                /\ events_counter[c] =
                        Len(q_yielded[c]) - (IF q_pc[c] = "yielded" THEN 1 ELSE 0)
                /\ q_after[c] <= 1
                /\ q_pc[c] = "done" => stop_event[c]
                /\ (q_after[c] = 1 /\ q_pc[c] = "check") => stop_event[c]
          /\ \A c, d \in Consumers :
                c # d => C39_Events(q_yielded[c]) \cap C39_Events(q_yielded[d]) = {}
          /\ \A e \in 1..q_put :
                (e \in C39_Events(outbound_queue))
                    # (\E c \in Consumers : e \in C39_Events(q_yielded[c]))
          /\ Len(outbound_queue) = Cardinality(C39_Events(outbound_queue)))
    /\ [][\A c \in Consumers :
            /\ q_pc[c] = "done" => (q_pc'[c] = "done" /\ q_yielded'[c] = q_yielded[c])
            /\ (stop_event[c] /\ q_pc[c] = "check") => q_pc'[c] \in {"check", "done"}
            /\ events_counter'[c] # events_counter[c] =>
                    (q_pc[c] = "yielded" /\ events_counter'[c] = events_counter[c] + 1)]_vars

\* C39 witness: the flag of consumer 1 was set while it waited on the queue;
\* the wait gave it the second event, after which it terminated, and the
\* third event went to consumer 2, which has not resumed yet
C39_Witness ==
    /\ q_pc[1] = "done" /\ q_after[1] = 1
    /\ q_yielded[1] = <<1, 2>> /\ events_counter[1] = 2
    /\ q_pc[2] = "yielded" /\ q_yielded[2] = <<3>> /\ events_counter[2] = 0

\* C40: create_gauge is called at most once for a gauge name, and the
\* exporters built with one gauge name hold the same gauge object.
C40_OneGaugePerName ==
    /\ \A name \in GaugeNames : gg_calls[name] <= 1
    /\ \A t, u \in Exporters :
            (gg_pc[t] = "built" /\ gg_pc[u] = "built" /\ gauge_name[t] = gauge_name[u]) =>
                stress_metric[t] = stress_metric[u]

====
